---- MODULE Spec2Model ----
(***************************************************************************)
(* Model of the mmar HTTP reverse tunnel: the server's tunnel manager      *)
(* (registry, per-IP lists, dispatcher per TCP connection, teardown), the  *)
(* server router (ServeHTTP, inflight requests, response correlation) and  *)
(* the client session (reconnect with subdomain reclaim).                  *)
(*                                                                         *)
(* Strings that the code inspects character by character (subdomain names, *)
(* Host labels) are sequences of one-character strings.                    *)
(***************************************************************************)
EXTENDS Integers, Sequences, FiniteSets, TLC

(***************************************************************************)
(* Program constants                                                       *)
(***************************************************************************)
MAX_TUNNELS_PER_IP == 5
ID_LENGTH == 6
ID_CHARSET ==
    {"a","b","c","d","e","f","g","h","i","j","k","l","m","n","o","p","q","r",
     "s","t","u","v","w","x","y","z","0","1","2","3","4","5","6","7","8","9"}
MaxSubdomainLen == 63

CLIENT_DISCONNECT_ERR_TEXT == "Tunnel is closed, cannot connect to mmar client."

(***************************************************************************)
(* Bounds of the model                                                     *)
(***************************************************************************)
MaxConns == 2        \* TCP connections accepted by the server (core runs)
MaxGen == 1          \* tunnels created on one connection whose peer asks
                     \* for a tunnel once; one more when it asks again
MaxReqs == 2         \* end-user HTTP requests
MaxHeartbeats == 1   \* heartbeat frames the server writes to one link

QuotaConns == 7      \* TCP connections accepted in the per-IP quota runs

Conns == 1..QuotaConns
Gens == 1..(MaxGen + 1)
CoreConns == 1..MaxConns
Reqs == 1..MaxReqs
IPs == {"ip1", "ip2"}

(***************************************************************************)
(* Characters and names                                                    *)
(***************************************************************************)
LowerSeq == <<"a","b","c","d","e","f","g","h","i","j","k","l","m",
              "n","o","p","q","r","s","t","u","v","w","x","y","z">>
UpperSeq == <<"A","B","C","D","E","F","G","H","I","J","K","L","M",
              "N","O","P","Q","R","S","T","U","V","W","X","Y","Z">>
Digits == {"0","1","2","3","4","5","6","7","8","9"}
LowerChars == {LowerSeq[i] : i \in 1..26}
UpperChars == {UpperSeq[i] : i \in 1..26}

\* strings.ToLower, one character
ToLowerChar(ch) ==
    IF ch \in UpperChars
    THEN LowerSeq[CHOOSE i \in 1..26 : UpperSeq[i] = ch]
    ELSE ch

\* strings.ToLower
ToLower(s) == [i \in 1..Len(s) |-> ToLowerChar(s[i])]

EmptyName == << >>
nAdmin == <<"a","d","m","i","n">>
nStats == <<"s","t","a","t","s">>
nWww == <<"w","w","w">>
nApi == <<"a","p","i">>
nApp == <<"a","p","p">>

nAbc123 == <<"a","b","c","1","2","3">>
nXyz789 == <<"x","y","z","7","8","9">>
nMyApp == <<"m","y","-","a","p","p">>
nUpperWww == <<"W","w","w">>
nUpperAb == <<"A","b">>
nLeadDash == <<"-","a","b">>
nTrailDash == <<"a","b","-">>
nUnderscore == <<"a","_","b">>
nTooLong == [i \in 1..(MaxSubdomainLen + 1) |-> "a"]

\* slices.Contains
Contains(list, x) == \E i \in 1..Len(list) : list[i] = x

\* strings.HasPrefix / strings.HasSuffix with a one-character affix
HasPrefix(s, ch) == Len(s) >= 1 /\ s[1] = ch
HasSuffix(s, ch) == Len(s) >= 1 /\ s[Len(s)] = ch

\* the character test of isValidSubdomainName
ValidNameChar(ch) ==
    ch \in LowerChars \/ ch \in UpperChars \/ ch \in Digits \/ ch = "-"

\* reserved names at validation time and at generation time
validationReserved == <<nAdmin, nStats, nWww, nApi, nApp>>
generationReserved == <<EmptyName, nAdmin, nStats>>

\* a validation that tests the generator's reserved list
isValidSubdomainNameGenerationList(name) ==
    IF name = EmptyName THEN FALSE
    ELSE IF Contains(generationReserved, ToLower(name)) THEN FALSE
    ELSE IF Len(name) < 1 \/ Len(name) > MaxSubdomainLen THEN FALSE
    ELSE IF \E i \in 1..Len(name) : ~ValidNameChar(name[i]) THEN FALSE
    ELSE IF HasPrefix(name, "-") \/ HasSuffix(name, "-") THEN FALSE
    ELSE TRUE

\* MmarServer.isValidSubdomainName
isValidSubdomainName(name) ==
    IF name = EmptyName THEN FALSE
    ELSE IF Contains(validationReserved, ToLower(name)) THEN FALSE
    ELSE IF Len(name) < 1 \/ Len(name) > MaxSubdomainLen THEN FALSE
    ELSE IF \E i \in 1..Len(name) : ~ValidNameChar(name[i]) THEN FALSE
    ELSE IF HasPrefix(name, "-") \/ HasSuffix(name, "-") THEN FALSE
    ELSE TRUE

\* the values GenerateRandomID draws in the model: ID_LENGTH characters of
\* ID_CHARSET each
RandomIDPool == {nAbc123, nXyz789}
GenerateRandomID ==
    {id \in RandomIDPool :
        Len(id) = ID_LENGTH /\ \A i \in 1..Len(id) : id[i] \in ID_CHARSET}

\* MmarServer.GenerateUniqueSubdomain: the set of values the loop can return.
\* The loop's init statement evaluates `exists` once, for the empty string;
\* the condition re-tests only the reserved list for each new draw.
GenerateUniqueSubdomain(cl) ==
    LET exists == EmptyName \in DOMAIN cl
    IN  {g \in GenerateRandomID : ~(exists \/ Contains(generationReserved, g))}

\* finite maps
EmptyMap == [x \in {} |-> 0]
Put(f, k, v) == [x \in DOMAIN f \cup {k} |-> IF x = k THEN v ELSE f[x]]
Del(f, k) == [x \in DOMAIN f \ {k} |-> f[x]]

\* slices.Index (0 when absent) and slices.Delete of one element
Index(list, x) ==
    IF Contains(list, x)
    THEN CHOOSE i \in 1..Len(list) :
            list[i] = x /\ \A j \in 1..(i - 1) : list[j] # x
    ELSE 0
DeleteAt(list, i) ==
    [j \in 1..(Len(list) - 1) |-> IF j < i THEN list[j] ELSE list[j + 1]]

(***************************************************************************)
(* State                                                                   *)
(***************************************************************************)
VARIABLES
    clients,       \* MmarServer.clients: subdomain -> ClientTunnel <<conn, gen>>
    tunnelsPerIP,  \* MmarServer.tunnelsPerIP: peer IP -> list of subdomains
    mu,            \* MmarServer.mu: 0 when free, else the connection whose
                   \* dispatcher holds it
    srv,           \* the server process: "running", or the panic that
                   \* ended it
    conn,          \* per connection: "none", "open", "down" (peer gone or
                   \* link broken), "closed" (closed by the server)
    ip,            \* per connection: peer IP of Conn.RemoteAddr()
    pc,            \* per connection: position of processTunnelMessages
    ct,            \* per connection: the dispatcher's ct (0 is nil, else the
                   \* generation of the ClientTunnel created on the connection)
    pend,          \* per connection: subdomain argument of newClientTunnel
    nGen,          \* per connection: ClientTunnels created so far
    timer,         \* per connection: receiveMessageTimeout, "armed",
                   \* "stopped" or "fired"
    deadline,      \* per connection: a read deadline is set on Conn
    toClient,      \* per connection: frames written to Conn by the server
    tunId,         \* per ClientTunnel: Tunnel.Id
    chanClosed,    \* per ClientTunnel: incomingChannel/outgoingChannel closed
    inflight,      \* per ClientTunnel: inflightRequests, request-id -> request
    td,            \* per connection and task: progress of closeClientTunnel
    req,           \* per end-user request: state of its ServeHTTP call
    respPending,   \* per connection: handleResponseMessages goroutines
                   \* started and not yet run
    replied,       \* per connection: the REQUEST frames (positions in
                   \* toClient) that the peer has answered
    clPc,          \* the mmar client: "start", "await" (ProcessTunnelMessages
                   \* in ReceiveMessage), "reconnect" (in reconnectTunnel),
                   \* "exited"
    clConn,        \* the mmar client: its mc.Tunnel.Conn (0 before the dial)
    clSub,         \* the mmar client: mc.subdomain
    clRead,        \* the mmar client: frames of its connection read so far
    toServer,      \* per connection: frames written by the mmar client and
                   \* not yet read by the dispatcher
    clDeadline,    \* the mmar client: a read deadline is set on its Conn
    clHandled,     \* the mmar client: the handleRequestMessage calls that
                   \* have returned: REQUEST frame, outcome of the call to
                   \* localhost, type of the reply written
    clCtx,         \* the mmar client: the context of Run, "live" or
                   \* "cancelled"
    wire,          \* frame codec: the bytes of a stream a reader is about to
                   \* deserialize
    sent,          \* frame codec: what put these bytes on the stream
    decoded        \* frame codec: the outcome of deserializeMessage

regVars == <<clients, tunnelsPerIP, mu>>
connVars == <<conn, ip, pc, ct, pend, nGen, timer, deadline>>
tunVars == <<tunId, chanClosed, inflight>>
cdVars == <<wire, sent, decoded>>
vars == <<clients, tunnelsPerIP, mu, srv, conn, ip, pc, ct, pend, nGen, timer,
          deadline, toClient, tunId, chanClosed, inflight, td, req,
          respPending, replied, clPc, clConn, clSub, clRead, toServer,
          clDeadline, clHandled, clCtx, wire, sent, decoded>>
clVars == <<clPc, clConn, clSub, clRead, toServer, clDeadline, clHandled,
           clCtx>>
mmarVars == <<regVars, srv, connVars, toClient, tunVars, td, req, respPending,
              replied, clVars>>

Tun == Conns \X Gens

\* the goroutines that can run closeClientTunnel for a connection: the
\* dispatcher, the heartbeat timer callback, a handleResponseMessages call
Tasks == {"disp", "timer", "resp"}
IdleTask == [step |-> "idle", gen |-> 0, snap |-> << >>]

\* a TunnelMessage as written on the link
Frame(type, name, id, rq) == [type |-> type, name |-> name, id |-> id, rq |-> rq]

\* the codec has sent nothing and decoded nothing
IdleSent == [kind |-> "none", MsgType |-> 0, MsgData |-> << >>,
             lengthField |-> << >>, tail |-> << >>]
IdleDecoded == [err |-> "idle", MsgType |-> 0, MsgData |-> << >>,
                rest |-> << >>]

IdleReq == [pc |-> "idle", sub |-> EmptyName, clientExists |-> FALSE,
            tun |-> <<0, 0>>, id |-> 0, cause |-> "none",
            status |-> 0, body |-> "", from |-> 0,
            fwd |-> "none", readErr |-> "none", ser |-> "none"]

Init ==
    /\ clients = EmptyMap
    /\ tunnelsPerIP = EmptyMap
    /\ mu = 0
    /\ srv = "running"
    /\ conn = [c \in Conns |-> "none"]
    /\ ip = [c \in Conns |-> "ip1"]
    /\ pc = [c \in Conns |-> "none"]
    /\ ct = [c \in Conns |-> 0]
    /\ pend = [c \in Conns |-> EmptyName]
    /\ nGen = [c \in Conns |-> 0]
    /\ timer = [c \in Conns |-> "stopped"]
    /\ deadline = [c \in Conns |-> FALSE]
    /\ toClient = [c \in Conns |-> << >>]
    /\ tunId = [o \in Tun |-> EmptyName]
    /\ chanClosed = [o \in Tun |-> FALSE]
    /\ inflight = [o \in Tun |-> EmptyMap]
    /\ td = [c \in Conns |-> [k \in Tasks |-> IdleTask]]
    /\ req = [r \in Reqs |-> IdleReq]
    /\ respPending = [c \in Conns |-> {}]
    /\ replied = [c \in Conns |-> {}]
    /\ clPc = "start"
    /\ clConn = 0
    /\ clSub = EmptyName
    /\ clRead = 0
    /\ toServer = [c \in Conns |-> << >>]
    /\ clDeadline = FALSE
    /\ clHandled = {}
    /\ clCtx = "live"
    /\ wire = << >>
    /\ sent = IdleSent
    /\ decoded = IdleDecoded

(***************************************************************************)
(* Tunnel link: SendMessage                                                *)
(***************************************************************************)
\* outcomes of Conn.Write: it succeeds on an open connection, fails on one
\* the server has closed, and does either once the peer is gone
SendOutcomes(c) ==
    IF conn[c] = "open" THEN {TRUE}
    ELSE IF conn[c] = "down" THEN {TRUE, FALSE}
    ELSE {FALSE}

\* Tunnel.SendMessage: the link after a write with outcome ok; bytes written
\* to a link whose peer is gone reach nobody
SendMessage(c, frame, ok) ==
    IF ok /\ conn[c] = "open"
    THEN [toClient EXCEPT ![c] = Append(@, frame)]
    ELSE toClient

\* heartbeat frames written to the link of c so far
Heartbeats(c) ==
    Cardinality({i \in DOMAIN toClient[c] :
        toClient[c][i].type \in {"HEARTBEAT_ACK", "HEARTBEAT_FROM_SERVER"}})

(***************************************************************************)
(* Server tunnel manager                                                   *)
(***************************************************************************)
\* handleTcpConnection: a connection is accepted and its dispatcher starts
\* waiting in ReceiveMessage
handleTcpConnection(c, addr) ==
    /\ srv = "running"
    /\ pc[c] = "none"
    /\ IF c = 1 THEN TRUE ELSE pc[c - 1] # "none"
    /\ conn' = [conn EXCEPT ![c] = "open"]
    /\ ip' = [ip EXCEPT ![c] = addr]
    /\ pc' = [pc EXCEPT ![c] = "recv"]
    /\ timer' = [timer EXCEPT ![c] = "armed"]
    /\ UNCHANGED <<regVars, srv, ct, pend, nGen, deadline, toClient, tunVars,
                   td, req, respPending, replied>>

\* the peer closes the connection or the link breaks
LinkDown(c) ==
    /\ conn[c] = "open"
    /\ conn' = [conn EXCEPT ![c] = "down"]
    /\ UNCHANGED <<regVars, srv, ip, pc, ct, pend, nGen, timer, deadline,
                   toClient, tunVars, td, req, respPending, replied>>

\* Tunnel.ReservedSubdomain of the ClientTunnel of generation g on c
ReservedSubdomain(c, g) == tunId[<<c, g>>] # EmptyName

\* MmarServer.TunnelLimitedIP: the result, and the map after the call
TunnelLimitedIP(addr) ==
    IF addr \in DOMAIN tunnelsPerIP
    THEN Len(tunnelsPerIP[addr]) >= MAX_TUNNELS_PER_IP
    ELSE 0 >= MAX_TUNNELS_PER_IP
TunnelLimitedIPMap(addr) ==
    IF addr \in DOMAIN tunnelsPerIP THEN tunnelsPerIP
    ELSE Put(tunnelsPerIP, addr, << >>)

\* closeClientTunnel, first part: delete(ms.clients, ct.Id) and the read of
\* the peer IP's list; the task then holds the list it has read
closeClientTunnelBegin(c, k, g) ==
    /\ clients' = Del(clients, tunId[<<c, g>>])
    /\ td' = [td EXCEPT ![c][k] =
                [step |-> "finish", gen |-> g,
                 snap |-> IF ip[c] \in DOMAIN tunnelsPerIP
                          THEN tunnelsPerIP[ip[c]] ELSE << >>]]

\* closeClientTunnelOrConn as called by task k for connection c with the
\* dispatcher's ct.  ReservedSubdomain is a method of the Tunnel embedded in
\* *ct: with a nil ct the selector dereferences nil and the goroutine panics.
closeClientTunnelOrConn(c, k) ==
    IF ct[c] = 0
    THEN /\ srv' = "panic_nil_ct"
         /\ UNCHANGED <<clients, td, conn>>
    ELSE IF ~ReservedSubdomain(c, ct[c])
    THEN /\ conn' = [conn EXCEPT ![c] = "closed"]
         /\ UNCHANGED <<clients, td, srv>>
    ELSE /\ closeClientTunnelBegin(c, k, ct[c])
         /\ UNCHANGED <<conn, srv>>

\* the dispatcher's position after it called closeClientTunnelOrConn
AfterClose(c) ==
    IF ct[c] # 0 /\ ReservedSubdomain(c, ct[c]) THEN "closing" ELSE "done"

\* closeClientTunnel, second part: the list is written back without the
\* tunnel's subdomain, then ClientTunnel.close(true) drains and closes the
\* tunnel's channels; draining channels that are already closed receives a
\* zero IncomingRequest and calls its nil cancel function
closeClientTunnelFinish(c, k) ==
    /\ srv = "running"
    /\ td[c][k].step = "finish"
    /\ LET o == <<c, td[c][k].gen>>
           tunnels == td[c][k].snap
           index == Index(tunnels, tunId[o])
       IN  /\ tunnelsPerIP' =
                 IF index # 0
                 THEN Put(tunnelsPerIP, ip[c], DeleteAt(tunnels, index))
                 ELSE tunnelsPerIP
           /\ IF chanClosed[o]
              THEN /\ srv' = "panic_drainChannels"
                   /\ UNCHANGED chanClosed
              ELSE /\ chanClosed' = [chanClosed EXCEPT ![o] = TRUE]
                   /\ UNCHANGED srv
    /\ td' = [td EXCEPT ![c][k].step = "grace", ![c][k].snap = << >>]
    /\ UNCHANGED <<clients, mu, connVars, toClient, tunId, inflight, req,
                   respPending, replied>>

\* ClientTunnel.close(true), end: after GRACEFUL_SHUTDOWN_TIMEOUT the
\* connection is closed; the dispatcher returns when it was the caller
closeClientTunnelClose(c, k) ==
    /\ srv = "running"
    /\ td[c][k].step = "grace"
    /\ conn' = [conn EXCEPT ![c] = "closed"]
    /\ td' = [td EXCEPT ![c][k] = IdleTask]
    /\ pc' = IF k = "disp" THEN [pc EXCEPT ![c] = "done"] ELSE pc
    /\ UNCHANGED <<regVars, srv, ip, ct, pend, nGen, timer, deadline,
                   toClient, tunVars, req, respPending, replied>>

\* processTunnelMessages is waiting in ReceiveMessage and a frame that the
\* peer wrote can be read
CanReceive(c) ==
    /\ srv = "running"
    /\ pc[c] = "recv"
    /\ conn[c] \in {"open", "down"}

\* processTunnelMessages, case CREATE_TUNNEL: newClientTunnel is called,
\* whether or not the connection has a ClientTunnel already (cap bounds the
\* ClientTunnels made on one connection)
DispatchCreateTunnelUpTo(c, name, cap) ==
    /\ CanReceive(c)
    /\ nGen[c] < cap
    /\ pc' = [pc EXCEPT ![c] = "nct_lock"]
    /\ pend' = [pend EXCEPT ![c] = name]
    /\ timer' = [timer EXCEPT ![c] = "stopped"]
    /\ deadline' = [deadline EXCEPT ![c] = FALSE]
    /\ UNCHANGED <<regVars, srv, conn, ip, ct, nGen, toClient, tunVars, td,
                   req, respPending, replied>>

\* CREATE_TUNNEL from peers that ask for a tunnel once per connection
DispatchCreateTunnel(c, name) == DispatchCreateTunnelUpTo(c, name, MaxGen)

\* processTunnelMessages, case RECLAIM_TUNNEL: the subdomain is looked up
\* without the lock; when bound the connection is closed, else
\* newClientTunnel is called
DispatchReclaimTunnelUpTo(c, existingId, cap) ==
    /\ CanReceive(c)
    /\ timer' = [timer EXCEPT ![c] = "stopped"]
    /\ deadline' = [deadline EXCEPT ![c] = FALSE]
    /\ IF existingId \in DOMAIN clients
       THEN /\ closeClientTunnelOrConn(c, "disp")
            /\ pc' = [pc EXCEPT ![c] = AfterClose(c)]
            /\ UNCHANGED pend
       ELSE /\ nGen[c] < cap
            /\ pc' = [pc EXCEPT ![c] = "nct_lock"]
            /\ pend' = [pend EXCEPT ![c] = existingId]
            /\ UNCHANGED <<clients, td, conn, srv>>
    /\ UNCHANGED <<tunnelsPerIP, mu, ip, ct, nGen, toClient, tunVars,
                   req, respPending, replied>>

\* RECLAIM_TUNNEL from peers that ask for a tunnel once per connection
DispatchReclaimTunnel(c, existingId) ==
    DispatchReclaimTunnelUpTo(c, existingId, MaxGen)

\* newClientTunnel from ms.mu.Lock() to the per-IP limit check.  An invalid
\* or taken custom name unlocks, sends the error frame and makes the
\* dispatcher return; otherwise the lock stays held.
newClientTunnelLock(c) ==
    /\ srv = "running"
    /\ pc[c] = "nct_lock"
    /\ mu = 0
    /\ LET subdomain == pend[c] IN
       IF subdomain # EmptyName /\ ~isValidSubdomainName(subdomain)
       THEN /\ toClient' = SendMessage(c,
                   Frame("INVALID_SUBDOMAIN_NAME", EmptyName, 0, 0), TRUE)
            /\ pc' = [pc EXCEPT ![c] = "done"]
            /\ ct' = [ct EXCEPT ![c] = 0]
            /\ UNCHANGED <<tunnelsPerIP, mu, pend>>
       ELSE IF subdomain # EmptyName /\ subdomain \in DOMAIN clients
       THEN /\ toClient' = SendMessage(c,
                   Frame("SUBDOMAIN_ALREADY_TAKEN", EmptyName, 0, 0), TRUE)
            /\ pc' = [pc EXCEPT ![c] = "done"]
            /\ ct' = [ct EXCEPT ![c] = 0]
            /\ UNCHANGED <<tunnelsPerIP, mu, pend>>
       ELSE \E uniqueSubdomain \in
                  (IF subdomain # EmptyName THEN {subdomain}
                   ELSE GenerateUniqueSubdomain(clients)) :
            /\ mu' = c
            /\ pend' = [pend EXCEPT ![c] = uniqueSubdomain]
            /\ tunnelsPerIP' = TunnelLimitedIPMap(ip[c])
            /\ pc' = [pc EXCEPT ![c] =
                        IF TunnelLimitedIP(ip[c]) THEN "nct_limit"
                        ELSE "nct_insert"]
            /\ UNCHANGED <<toClient, ct>>
    /\ UNCHANGED <<clients, srv, conn, ip, nGen, timer, deadline, tunVars, td,
                   req, respPending, replied>>

\* newClientTunnel, the IP has reached its limit: CLIENT_TUNNEL_LIMIT is
\* sent and the ClientTunnel closed while the lock is held, then the lock is
\* released and the dispatcher closes the connection and returns
newClientTunnelLimit(c) ==
    /\ srv = "running"
    /\ pc[c] = "nct_limit"
    /\ mu = c
    /\ toClient' = SendMessage(c,
            Frame("CLIENT_TUNNEL_LIMIT", EmptyName, 0, 0), TRUE)
    /\ conn' = [conn EXCEPT ![c] = "closed"]
    /\ mu' = 0
    /\ pc' = [pc EXCEPT ![c] = "done"]
    /\ ct' = [ct EXCEPT ![c] = 0]
    /\ UNCHANGED <<clients, tunnelsPerIP, srv, ip, pend, nGen, timer,
                   deadline, tunVars, td, req, respPending, replied>>

\* newClientTunnel, registration: ms.clients[uniqueSubdomain] = clientTunnel,
\* the subdomain is appended to the peer IP's list, the lock is released
newClientTunnelInsert(c) ==
    /\ srv = "running"
    /\ pc[c] = "nct_insert"
    /\ mu = c
    /\ LET g == nGen[c] + 1
           uniqueSubdomain == pend[c]
       IN  /\ clients' = Put(clients, uniqueSubdomain, <<c, g>>)
           /\ tunnelsPerIP' = Put(tunnelsPerIP, ip[c],
                  Append(IF ip[c] \in DOMAIN tunnelsPerIP
                         THEN tunnelsPerIP[ip[c]] ELSE << >>,
                         uniqueSubdomain))
           /\ tunId' = [tunId EXCEPT ![<<c, g>>] = uniqueSubdomain]
           /\ nGen' = [nGen EXCEPT ![c] = g]
    /\ mu' = 0
    /\ pc' = [pc EXCEPT ![c] = "nct_send"]
    /\ UNCHANGED <<srv, conn, ip, ct, pend, timer, deadline, toClient,
                   chanClosed, inflight, td, req, respPending, replied>>

\* newClientTunnel, the reply: TUNNEL_CREATED(uniqueSubdomain) is sent after
\* the unlock (msgType is TUNNEL_CREATED on both branches).  When the send
\* fails newClientTunnel returns (nil, err) and the dispatcher returns.
newClientTunnelSend(c, ok) ==
    /\ srv = "running"
    /\ pc[c] = "nct_send"
    /\ ok \in SendOutcomes(c)
    /\ toClient' = SendMessage(c, Frame("TUNNEL_CREATED", pend[c], 0, 0), ok)
    /\ IF ok
       THEN /\ ct' = [ct EXCEPT ![c] = nGen[c]]
            /\ pc' = [pc EXCEPT ![c] = "recv"]
            /\ timer' = [timer EXCEPT ![c] = "armed"]
       ELSE /\ ct' = [ct EXCEPT ![c] = 0]
            /\ pc' = [pc EXCEPT ![c] = "done"]
            /\ UNCHANGED timer
    /\ UNCHANGED <<regVars, srv, conn, ip, pend, nGen, deadline, tunVars, td,
                   req, respPending, replied>>

\* processTunnelMessages, case CLIENT_DISCONNECT
DispatchClientDisconnect(c) ==
    /\ CanReceive(c)
    /\ closeClientTunnelOrConn(c, "disp")
    /\ pc' = [pc EXCEPT ![c] = AfterClose(c)]
    /\ timer' = [timer EXCEPT ![c] = "stopped"]
    /\ deadline' = [deadline EXCEPT ![c] = FALSE]
    /\ UNCHANGED <<tunnelsPerIP, mu, ip, ct, pend, nGen, toClient,
                   tunVars, req, respPending, replied>>

\* a dispatcher for which an expired read deadline is not a network error:
\* on a live link the loop continues with a new timer
DispatchNetworkErrorContinue(c) ==
    /\ srv = "running"
    /\ pc[c] = "recv"
    /\ (conn[c] \in {"down", "closed"} \/ deadline[c])
    /\ IF conn[c] = "open"
       THEN /\ timer' = [timer EXCEPT ![c] = "armed"]
            /\ UNCHANGED <<clients, td, conn, srv, pc>>
       ELSE /\ closeClientTunnelOrConn(c, "disp")
            /\ pc' = [pc EXCEPT ![c] = AfterClose(c)]
            /\ timer' = [timer EXCEPT ![c] = "stopped"]
    /\ deadline' = [deadline EXCEPT ![c] = FALSE]
    /\ UNCHANGED <<tunnelsPerIP, mu, ip, ct, pend, nGen, toClient,
                   tunVars, req, respPending, replied>>

\* processTunnelMessages, ReceiveMessage fails with a network error (the
\* peer is gone, the connection was closed, or the read deadline expired)
DispatchNetworkError(c) ==
    /\ srv = "running"
    /\ pc[c] = "recv"
    /\ (conn[c] \in {"down", "closed"} \/ deadline[c])
    /\ closeClientTunnelOrConn(c, "disp")
    /\ pc' = [pc EXCEPT ![c] = AfterClose(c)]
    /\ timer' = [timer EXCEPT ![c] = "stopped"]
    /\ deadline' = [deadline EXCEPT ![c] = FALSE]
    /\ UNCHANGED <<tunnelsPerIP, mu, ip, ct, pend, nGen, toClient,
                   tunVars, req, respPending, replied>>

\* a dispatcher that reads HEARTBEAT_FROM_CLIENT and writes nothing back
DispatchHeartbeatFromClientNoAck(c, ok) ==
    /\ CanReceive(c)
    /\ ok
    /\ timer' = [timer EXCEPT ![c] = "armed"]
    /\ deadline' = [deadline EXCEPT ![c] = FALSE]
    /\ UNCHANGED <<regVars, srv, conn, ip, pc, ct, pend, nGen, toClient,
                   tunVars, td, req, respPending, replied>>

\* processTunnelMessages, case HEARTBEAT_FROM_CLIENT: HEARTBEAT_ACK is sent;
\* a failed send tears the tunnel down and the dispatcher returns
DispatchHeartbeatFromClient(c, ok) ==
    /\ CanReceive(c)
    /\ ok \in SendOutcomes(c)
    /\ Heartbeats(c) < MaxHeartbeats
    /\ toClient' = SendMessage(c, Frame("HEARTBEAT_ACK", EmptyName, 0, 0), ok)
    /\ deadline' = [deadline EXCEPT ![c] = FALSE]
    /\ IF ok
       THEN /\ timer' = [timer EXCEPT ![c] = "armed"]
            /\ UNCHANGED <<clients, td, conn, pc, srv>>
       ELSE /\ closeClientTunnelOrConn(c, "disp")
            /\ pc' = [pc EXCEPT ![c] = AfterClose(c)]
            /\ timer' = [timer EXCEPT ![c] = "stopped"]
    /\ UNCHANGED <<tunnelsPerIP, mu, ip, ct, pend, nGen, tunVars, req,
                   respPending, replied>>

\* processTunnelMessages, case HEARTBEAT_ACK: nothing but the loop's timer
\* stop and read-deadline reset
DispatchHeartbeatAck(c) ==
    /\ CanReceive(c)
    /\ timer' = [timer EXCEPT ![c] = "armed"]
    /\ deadline' = [deadline EXCEPT ![c] = FALSE]
    /\ UNCHANGED <<regVars, srv, conn, ip, pc, ct, pend, nGen, toClient,
                   tunVars, td, req, respPending, replied>>

\* the receiveMessageTimeout callback of processTunnelMessages: after
\* HEARTBEAT_FROM_SERVER_TIMEOUT without a message HEARTBEAT_FROM_SERVER is
\* sent; on success a read deadline is set, on failure the callback calls
\* closeClientTunnelOrConn
HeartbeatTimeout(c, ok) ==
    /\ srv = "running"
    /\ pc[c] = "recv"
    /\ timer[c] = "armed"
    /\ td[c]["timer"].step = "idle"
    /\ ok \in SendOutcomes(c)
    /\ Heartbeats(c) < MaxHeartbeats
    /\ toClient' = SendMessage(c,
            Frame("HEARTBEAT_FROM_SERVER", EmptyName, 0, 0), ok)
    /\ timer' = [timer EXCEPT ![c] = "fired"]
    /\ IF ok
       THEN /\ deadline' = [deadline EXCEPT ![c] = TRUE]
            /\ UNCHANGED <<clients, td, conn, srv>>
       ELSE /\ closeClientTunnelOrConn(c, "timer")
            /\ UNCHANGED deadline
    /\ UNCHANGED <<tunnelsPerIP, mu, ip, pc, ct, pend, nGen, tunVars,
                   req, respPending, replied>>

\* the same callback when its timer fired as a message arrived: Timer.Stop
\* does not wait for a callback that has started, so the callback of the
\* wait that has ended runs after the loop has removed the read deadline
\* and armed the timer of the next wait (the loop has come round at least
\* once when ct is set)
HeartbeatTimeoutLate(c, ok) ==
    /\ srv = "running"
    /\ pc[c] = "recv"
    /\ timer[c] = "armed"
    /\ ct[c] # 0
    /\ td[c]["timer"].step = "idle"
    /\ ok \in SendOutcomes(c)
    /\ Heartbeats(c) < MaxHeartbeats
    /\ toClient' = SendMessage(c,
            Frame("HEARTBEAT_FROM_SERVER", EmptyName, 0, 0), ok)
    /\ IF ok
       THEN /\ deadline' = [deadline EXCEPT ![c] = TRUE]
            /\ UNCHANGED <<clients, td, conn, srv>>
       ELSE /\ closeClientTunnelOrConn(c, "timer")
            /\ UNCHANGED deadline
    /\ UNCHANGED <<tunnelsPerIP, mu, ip, pc, ct, pend, nGen, timer, tunVars,
                   req, respPending, replied>>

(***************************************************************************)
(* Server router: ServeHTTP and the inflight requests                      *)
(***************************************************************************)
\* a Host header, split at the dots
HostOf(label) == <<label, <<"m","m","a","r">>, <<"d","e","v">>>>

\* utils.ExtractSubdomain: the first label of the host, lower-cased
ExtractSubdomain(host) == ToLower(host[1])

\* protocol.TunnelErrState
TunnelErrState(errState) ==
    CASE errState = "CLIENT_DISCONNECT" -> CLIENT_DISCONNECT_ERR_TEXT
      [] errState = "LOCALHOST_NOT_RUNNING" ->
            "Tunneled successfully, but nothing is running on localhost."
      [] errState = "DEST_REQUEST_TIMEDOUT" ->
            "Destination server took too long to respond"
      [] errState = "INVALID_RESP_FROM_DEST" ->
            "Could not read response from destination server, check your server's logs for any errors."
      [] OTHER -> "An error occured while attempting to tunnel."

\* an error response with status 404
RespondTunnelErrNotFound(errState) ==
    [status |-> 404, body |-> TunnelErrState(errState)]

\* protocol.RespondTunnelErr: status and body written to the end-user
RespondTunnelErr(errState) ==
    [status |-> 200, body |-> TunnelErrState(errState)]

\* handleServerStats: 401 without valid credentials, else the JSON view
handleServerStats(validCredentials) ==
    IF validCredentials THEN [status |-> 200, body |-> "stats"]
    ELSE [status |-> 401, body |-> ""]

\* the text of the server's cancellation causes (cause.Error())
ErrorText(cause) ==
    CASE cause = "READ_BODY_CHUNK_ERR" -> "Error reading request body"
      [] cause = "READ_BODY_CHUNK_TIMEOUT_ERR" -> "Timeout reading request body"
      [] cause = "CLIENT_DISCONNECTED_ERR" -> CLIENT_DISCONNECT_ERR_TEXT
      [] cause = "READ_RESP_BODY_ERR" ->
            "Could not read response from destination server, check your server's logs for any errors."
      [] cause = "MAX_REQ_BODY_SIZE_ERR" -> "Request too large"
      [] cause = "FAILED_TO_FORWARD_TO_MMAR_CLIENT_ERR" ->
            "Failed to forward request to mmar client"
      [] cause = "FAILED_TO_READ_RESP_FROM_MMAR_CLIENT_ERR" ->
            "Fail to read response from mmad client"
      [] OTHER -> ""

\* an error handler that answers every cause with 400
handleCancelBadRequest(cause) ==
    [status |-> 400, body |-> ErrorText(cause)]

\* handleCancel: status and body written for a cancellation cause; nothing
\* is written for context.Canceled
handleCancel(cause) ==
    CASE cause = "Canceled" -> [status |-> 0, body |-> ""]
      [] cause = "READ_BODY_CHUNK_TIMEOUT_ERR" ->
            [status |-> 408, body |-> ErrorText(cause)]
      [] cause \in {"READ_BODY_CHUNK_ERR", "CLIENT_DISCONNECTED_ERR"} ->
            [status |-> 400, body |-> ErrorText(cause)]
      [] cause = "READ_RESP_BODY_ERR" ->
            [status |-> 500, body |-> ErrorText(cause)]
      [] cause = "MAX_REQ_BODY_SIZE_ERR" ->
            [status |-> 413, body |-> ErrorText(cause)]
      [] cause \in {"FAILED_TO_FORWARD_TO_MMAR_CLIENT_ERR",
                    "FAILED_TO_READ_RESP_FROM_MMAR_CLIENT_ERR"} ->
            [status |-> 503, body |-> ErrorText(cause)]
      [] OTHER -> [status |-> 0, body |-> ""]

\* the values GenerateRandomUint32 draws in the model
RandomUint32Pool == {0, 1, 2}
GenerateRandomUint32 == RandomUint32Pool

\* ClientTunnel.GenerateUniqueRequestID: the set of values the loop can
\* return.  The init statement loads `exists` once, for id 0; the condition
\* re-tests only generatedReqId == 0 for each new draw.
GenerateUniqueRequestID(infl) ==
    LET exists == 0 \in DOMAIN infl
    IN  {v \in GenerateRandomUint32 : ~(exists \/ v = 0)}

\* context.CancelCauseFunc: the first cause wins
Cancel(rq, cause) ==
    IF rq.cause = "none" THEN [rq EXCEPT !.cause = cause] ELSE rq

\* ServeHTTP up to the registry lookup: the stats subdomain is delegated,
\* an unknown subdomain is answered with the CLIENT_DISCONNECT text, else
\* the serializer is started for the tunnel found
ServeHTTPLookup(r, host, validCredentials) ==
    /\ srv = "running"
    /\ req[r].pc = "idle"
    /\ IF r = 1 THEN TRUE ELSE req[r - 1].pc # "idle"
    /\ LET subdomain == ExtractSubdomain(host)
           clientExists == subdomain \in DOMAIN clients
           base == [req[r] EXCEPT !.sub = subdomain,
                                  !.clientExists = clientExists]
       IN  IF subdomain = nStats
           THEN req' = [req EXCEPT ![r] =
                   [base EXCEPT !.pc = "done",
                        !.status = handleServerStats(validCredentials).status,
                        !.body = handleServerStats(validCredentials).body]]
           ELSE IF ~clientExists
           THEN /\ ~validCredentials
                /\ req' = [req EXCEPT ![r] =
                      [base EXCEPT !.pc = "done",
                        !.status = RespondTunnelErr("CLIENT_DISCONNECT").status,
                        !.body = RespondTunnelErr("CLIENT_DISCONNECT").body]]
           ELSE /\ ~validCredentials
                /\ req' = [req EXCEPT ![r] =
                      [base EXCEPT !.pc = "serialize",
                                   !.tun = clients[subdomain],
                                   !.ser = "read"]]
    /\ UNCHANGED <<regVars, srv, connVars, toClient, tunVars, td, respPending, replied>>

\* ServeHTTP, select: serializeRequest, still in its read loop, reads to
\* the end of the body and hands over the serialized request; the send on
\* the unbuffered channel and the receive are one step. serializeRequest
\* never looks at ctx, so the handover also happens after the chunk timer's
\* callback or the end-user's context has cancelled the request: with
\* ctx.Done() ready as well the select takes either case.
ServeHTTPSerialized(r) ==
    /\ srv = "running"
    /\ req[r].pc = "serialize"
    /\ req[r].ser = "read"
    /\ req' = [req EXCEPT ![r].pc = "generate", ![r].ser = "returned"]
    /\ UNCHANGED <<regVars, srv, connVars, toClient, tunVars, td, respPending, replied>>

\* where serializeRequest is after a cancellation: the chunk timer's
\* callback cancelRead runs beside the read loop, which goes on; after
\* cancel(MAX_REQ_BODY_SIZE_ERR) and cancel(READ_BODY_CHUNK_ERR) it returns
SerAfter(cause) ==
    IF cause = "READ_BODY_CHUNK_TIMEOUT_ERR" THEN "read" ELSE "returned"

\* serializeRequest cancels the request: chunk timeout, read error or body
\* over the maximum
serializeRequestCancel(r, cause) ==
    /\ srv = "running"
    /\ req[r].pc = "serialize"
    /\ req' = [req EXCEPT ![r] = [Cancel(@, cause) EXCEPT !.ser = SerAfter(cause)]]
    /\ req[r].cause = "none"
    /\ UNCHANGED <<regVars, srv, connVars, toClient, tunVars, td, respPending, replied>>

\* the end-user goes away: r.Context() is cancelled
EndUserGone(r) ==
    /\ srv = "running"
    /\ req[r].pc \in {"serialize", "wait"}
    /\ req[r].cause = "none"
    /\ req' = [req EXCEPT ![r] = Cancel(@, "Canceled")]
    /\ UNCHANGED <<regVars, srv, connVars, toClient, tunVars, td, respPending, replied>>

\* ServeHTTP, select: ctx.Done() while the request is being serialized
ServeHTTPSerializeCancelled(r) ==
    /\ srv = "running"
    /\ req[r].pc = "serialize"
    /\ req[r].cause # "none"
    /\ req' = [req EXCEPT ![r].pc = "done",
                          ![r].status = handleCancel(req[r].cause).status,
                          ![r].body = handleCancel(req[r].cause).body]
    /\ UNCHANGED <<regVars, srv, connVars, toClient, tunVars, td, respPending, replied>>

\* serializeRequest after the request was cancelled: r.Body.Read fails (the
\* end-user is gone, or ServeHTTP has returned and the body is closed), the
\* cancel that follows changes nothing, and the goroutine returns
serializeRequestReadFails(r) ==
    /\ srv = "running"
    /\ req[r].ser = "read"
    /\ req[r].cause # "none"
    /\ req' = [req EXCEPT ![r].ser = "returned"]
    /\ UNCHANGED <<regVars, srv, connVars, toClient, tunVars, td, respPending, replied>>

\* serializeRequest reads to the end of the body after ServeHTTP has taken
\* ctx.Done() and returned: it reaches the send on serializedRequestChannel,
\* which nothing receives from any more
serializeRequestHandover(r) ==
    /\ srv = "running"
    /\ req[r].ser = "read"
    /\ req[r].pc = "done"
    /\ req' = [req EXCEPT ![r].ser = "send"]
    /\ UNCHANGED <<regVars, srv, connVars, toClient, tunVars, td, respPending, replied>>

\* ServeHTTP: reqId := clientTunnel.GenerateUniqueRequestID()
ServeHTTPGenerate(r) ==
    /\ srv = "running"
    /\ req[r].pc = "generate"
    /\ \E reqId \in GenerateUniqueRequestID(inflight[req[r].tun]) :
          req' = [req EXCEPT ![r].pc = "store", ![r].id = reqId]
    /\ UNCHANGED <<regVars, srv, connVars, toClient, tunVars, td, respPending, replied>>

\* ServeHTTP: inflightRequests.Store(reqId, incomingReq), then the REQUEST
\* frame is sent; a failed send cancels the request with
\* FAILED_TO_FORWARD_TO_MMAR_CLIENT_ERR
ServeHTTPStoreSend(r, ok) ==
    /\ srv = "running"
    /\ req[r].pc = "store"
    /\ LET o == req[r].tun
           c == o[1]
       IN  /\ ok \in SendOutcomes(c)
           /\ inflight' = [inflight EXCEPT ![o] = Put(@, req[r].id, r)]
           /\ toClient' = SendMessage(c,
                  Frame("REQUEST", EmptyName, req[r].id, r), ok)
           /\ req' = [req EXCEPT ![r] =
                  [(IF ok THEN @
                    ELSE Cancel(@, "FAILED_TO_FORWARD_TO_MMAR_CLIENT_ERR"))
                   EXCEPT !.pc = "wait",
                          !.fwd = IF ok THEN "sent" ELSE "failed"]]
    /\ UNCHANGED <<regVars, srv, connVars, tunId, chanClosed, td, respPending, replied>>

\* ServeHTTP, second select: ctx.Done(); handleCancel writes the error and
\* the request-id is deleted from the tunnel's inflight map
ServeHTTPCancelled(r) ==
    /\ srv = "running"
    /\ req[r].pc = "wait"
    /\ req[r].cause # "none"
    /\ req' = [req EXCEPT ![r].pc = "done",
                          ![r].status = handleCancel(req[r].cause).status,
                          ![r].body = handleCancel(req[r].cause).body]
    /\ inflight' = [inflight EXCEPT ![req[r].tun] = Del(@, req[r].id)]
    /\ UNCHANGED <<regVars, srv, connVars, toClient, tunId, chanClosed, td,
                   respPending, replied>>

(***************************************************************************)
(* Responses                                                               *)
(***************************************************************************)
\* the frames a client sends back for a REQUEST frame, by type and, for
\* RESPONSE, by how its payload parses
ReplyKinds == {"RESPONSE", "RESPONSE_TRUNCATED", "RESPONSE_MALFORMED",
               "RESPONSE_BODY_SHORT", "LOCALHOST_NOT_RUNNING", "DEST_REQUEST_TIMEDOUT",
               "INVALID_RESP_FROM_DEST"}

\* the error frames of a client that could not get a response from
\* localhost
ErrorReplyKinds == {"LOCALHOST_NOT_RUNNING", "DEST_REQUEST_TIMEDOUT",
                    "INVALID_RESP_FROM_DEST"}

\* createSerializedServerResp followed by http.ReadResponse in
\* handleResponseMessages: the status line carries statusCode, no header is
\* written and the body runs to the end of the payload
createSerializedServerResp(status, statusCode, body) ==
    [statusLine |-> <<"HTTP/0.0", statusCode, status>>, body |-> body]

\* a canned response that is always 200 OK
ResponseMessageOk(g, f, k) ==
    [gen |-> g, id |-> f.id, from |-> f.rq, kind |-> k, parse |-> "ok",
     status |-> 200, body |-> TunnelErrState(k)]

\* the message handed to handleResponseMessages for a reply of kind k to
\* REQUEST frame f: a RESPONSE as sent, or the RESPONSE that
\* processTunnelMessages builds with createSerializedServerResp
ResponseMessage(g, f, k) ==
    LET canned == IF k = "INVALID_RESP_FROM_DEST"
                  THEN createSerializedServerResp(
                           "500 Internal Server Error", 500, TunnelErrState(k))
                  ELSE createSerializedServerResp(
                           "200 OK", 200, TunnelErrState(k))
    IN
    [gen |-> g, id |-> f.id, from |-> f.rq, kind |-> k,
     parse |-> CASE k = "RESPONSE_TRUNCATED" -> "truncated"
                 [] k = "RESPONSE_MALFORMED" -> "malformed"
                 [] k = "RESPONSE_BODY_SHORT" -> "body"
                 [] OTHER -> "ok",
     status |-> IF k \in ErrorReplyKinds THEN canned.statusLine[2] ELSE 200,
     body |-> IF k \in ErrorReplyKinds THEN canned.body
              ELSE "response from localhost"]

\* processTunnelMessages, cases RESPONSE, LOCALHOST_NOT_RUNNING,
\* DEST_REQUEST_TIMEDOUT and INVALID_RESP_FROM_DEST: the peer answers the
\* REQUEST frame at position i of the link and the dispatcher starts
\* handleResponseMessages(ct, msg) as a goroutine
DispatchResponse(c, i, k) ==
    /\ CanReceive(c)
    /\ i \in DOMAIN toClient[c]
    /\ toClient[c][i].type = "REQUEST"
    /\ i \notin replied[c]
    /\ replied' = [replied EXCEPT ![c] = @ \cup {i}]
    /\ respPending' = [respPending EXCEPT ![c] =
                          @ \cup {ResponseMessage(ct[c], toClient[c][i], k)}]
    /\ timer' = [timer EXCEPT ![c] = "armed"]
    /\ deadline' = [deadline EXCEPT ![c] = FALSE]
    /\ UNCHANGED <<regVars, srv, conn, ip, pc, ct, pend, nGen, toClient,
                   tunVars, td, req>>

\* the same cases of processTunnelMessages when the peer sends once more a
\* reply to a REQUEST frame that it has answered before
DispatchResponseRepeat(c, i, k) ==
    /\ CanReceive(c)
    /\ i \in replied[c]
    /\ ResponseMessage(ct[c], toClient[c][i], k) \notin respPending[c]
    /\ respPending' = [respPending EXCEPT ![c] =
                          @ \cup {ResponseMessage(ct[c], toClient[c][i], k)}]
    /\ timer' = [timer EXCEPT ![c] = "armed"]
    /\ deadline' = [deadline EXCEPT ![c] = FALSE]
    /\ UNCHANGED <<regVars, srv, conn, ip, pc, ct, pend, nGen, toClient,
                   tunVars, td, req, replied>>

\* the same cases of processTunnelMessages for a reply that answers no
\* REQUEST frame of the link: the peer chooses the request-id
DispatchResponseUnsolicited(c, id, k) ==
    /\ CanReceive(c)
    /\ respPending' = [respPending EXCEPT ![c] = @ \cup
           {ResponseMessage(ct[c], Frame("REQUEST", EmptyName, id, 0), k)}]
    /\ timer' = [timer EXCEPT ![c] = "armed"]
    /\ deadline' = [deadline EXCEPT ![c] = FALSE]
    /\ UNCHANGED <<regVars, srv, conn, ip, pc, ct, pend, nGen, toClient,
                   tunVars, td, req, replied>>

\* a handleResponseMessages that gives every head that fails to parse the
\* cause FAILED_TO_READ_RESP_FROM_MMAR_CLIENT_ERR
RespErrCauseFailedToRead(parse) == "FAILED_TO_READ_RESP_FROM_MMAR_CLIENT_ERR"

\* handleResponseMessages, respErr != nil: the cancellation cause by the
\* error of http.ReadResponse (io.ErrUnexpectedEOF or net.ErrClosed, or any
\* other error)
RespErrCause(parse) ==
    IF parse = "truncated" THEN "CLIENT_DISCONNECTED_ERR"
    ELSE "FAILED_TO_READ_RESP_FROM_MMAR_CLIENT_ERR"

\* handleResponseMessages(ct, msg): LoadAndDelete of the request-id in ct's
\* inflight map, then the response is parsed.  A payload that ends early
\* (io.ErrUnexpectedEOF) cancels the request with CLIENT_DISCONNECTED_ERR and
\* calls closeClientTunnel; another parse error cancels it with
\* FAILED_TO_READ_RESP_FROM_MMAR_CLIENT_ERR; a body that cannot be read to
\* its end cancels it with READ_RESP_BODY_ERR; a parsed response is handed to
\* the waiting ServeHTTP unless its context is done.  A nil ct is
\* dereferenced.
handleResponseMessages(c, m) ==
    /\ srv = "running"
    /\ m \in respPending[c]
    /\ respPending' = [respPending EXCEPT ![c] = @ \ {m}]
    /\ IF m.gen = 0
       THEN /\ srv' = "panic_nil_ct"
            /\ UNCHANGED <<clients, td, inflight, req>>
       ELSE LET o == <<c, m.gen>> IN
            IF m.id \notin DOMAIN inflight[o]
            THEN UNCHANGED <<srv, clients, td, inflight, req>>
            ELSE LET r == inflight[o][m.id] IN
                 /\ inflight' = [inflight EXCEPT ![o] = Del(@, m.id)]
                 /\ UNCHANGED srv
                 /\ CASE m.parse = "truncated" ->
                           /\ td[c]["resp"].step = "idle"
                           /\ req' = [req EXCEPT ![r] =
                                  [Cancel(@, RespErrCause(m.parse))
                                     EXCEPT !.readErr = "truncated"]]
                           /\ closeClientTunnelBegin(c, "resp", m.gen)
                      [] m.parse = "malformed" ->
                           /\ req' = [req EXCEPT ![r] =
                                  [Cancel(@, RespErrCause(m.parse))
                                     EXCEPT !.readErr = "malformed"]]
                           /\ UNCHANGED <<clients, td>>
                      [] m.parse = "body" ->
                           /\ req' = [req EXCEPT ![r] =
                                  [Cancel(@, "READ_RESP_BODY_ERR")
                                     EXCEPT !.readErr = "body"]]
                           /\ UNCHANGED <<clients, td>>
                      [] OTHER ->
                           /\ req' = IF req[r].pc = "wait" /\ req[r].cause = "none"
                                     THEN [req EXCEPT ![r].pc = "done",
                                                      ![r].status = m.status,
                                                      ![r].body = m.body,
                                                      ![r].from = m.from]
                                     ELSE req
                           /\ UNCHANGED <<clients, td>>
    /\ UNCHANGED <<tunnelsPerIP, mu, connVars, toClient, tunId, chanClosed,
                   replied>>

(***************************************************************************)
(* mmar client                                                             *)
(***************************************************************************)
\* the client's connection is unusable: the link is broken, the server has
\* closed it, or the server process is gone
ClientLinkLost == conn[clConn] \in {"down", "closed"} \/ srv # "running"

\* client.Run: dial, start ProcessTunnelMessages, send CREATE_TUNNEL with
\* the configured custom name
Run(c, customName) ==
    /\ clPc = "start"
    /\ handleTcpConnection(c, "ip1")
    /\ clConn' = c
    /\ clRead' = 0
    /\ clPc' = "await"
    /\ toServer' = [toServer EXCEPT ![c] =
                       <<Frame("CREATE_TUNNEL", customName, 0, 0)>>]
    /\ UNCHANGED <<clSub, clDeadline, clHandled, clCtx, cdVars>>

\* ProcessTunnelMessages comes back to its select with the loop in
\* position p: it returns when the context is done
LoopTop(p) ==
    IF p = "await" /\ clCtx = "cancelled" THEN "returned" ELSE p

\* MmarClient.reconnectTunnel, an iteration whose dial succeeds: the
\* context is not cancelled at the top of the iteration, the new
\* connection replaces mc.Tunnel.Conn and RECLAIM_TUNNEL(mc.subdomain) is
\* sent.  While the dial fails the loop sleeps and retries.
reconnectTunnel(c) ==
    /\ clPc = "reconnect"
    /\ clCtx = "live"
    /\ handleTcpConnection(c, "ip1")
    /\ clConn' = c
    /\ clRead' = 0
    /\ clPc' = "await"
    /\ toServer' = [toServer EXCEPT ![c] =
                       <<Frame("RECLAIM_TUNNEL", clSub, 0, 0)>>]
    /\ clDeadline' = FALSE
    /\ UNCHANGED <<clSub, clHandled, clCtx, cdVars>>

\* reconnectTunnel, top of an iteration: the context is not cancelled and
\* net.DialTimeout is called
reconnectTunnelDial ==
    /\ clPc = "reconnect"
    /\ clCtx = "live"
    /\ clPc' = "dialing"
    /\ UNCHANGED <<clConn, clSub, clRead, toServer, clDeadline, clHandled,
                   clCtx, cdVars, regVars, srv, connVars, toClient, tunVars,
                   td, req, respPending, replied>>

\* reconnectTunnel, top of an iteration with the context cancelled:
\* reconnectTunnel returns, ProcessTunnelMessages finds the context done
reconnectTunnelCancelled ==
    /\ clPc = "reconnect"
    /\ clCtx = "cancelled"
    /\ clPc' = "returned"
    /\ UNCHANGED <<clConn, clSub, clRead, toServer, clDeadline, clHandled,
                   clCtx, cdVars, regVars, srv, connVars, toClient, tunVars,
                   td, req, respPending, replied>>

\* reconnectTunnel, the dial that was started succeeds: the connection
\* replaces mc.Tunnel.Conn, RECLAIM_TUNNEL(mc.subdomain) is sent and the
\* loop is left; the context is not looked at again before the send
reconnectTunnelSend(c) ==
    /\ clPc = "dialing"
    /\ handleTcpConnection(c, "ip1")
    /\ clConn' = c
    /\ clRead' = 0
    /\ clPc' = LoopTop("await")
    /\ toServer' = [toServer EXCEPT ![c] =
                       <<Frame("RECLAIM_TUNNEL", clSub, 0, 0)>>]
    /\ clDeadline' = FALSE
    /\ UNCHANGED <<clSub, clHandled, clCtx, cdVars>>

\* the replies after which the client exits
FatalReplies == {"CLIENT_TUNNEL_LIMIT", "INVALID_SUBDOMAIN_NAME",
                 "SUBDOMAIN_ALREADY_TAKEN"}

\* a client that tries again after a refusal
ClientAfterMessageRetry(msgType) ==
    IF msgType \in FatalReplies THEN "reconnect" ELSE "await"

\* MmarClient.ProcessTunnelMessages, the message switch: os.Exit(0) on
\* CLIENT_TUNNEL_LIMIT, INVALID_SUBDOMAIN_NAME and SUBDOMAIN_ALREADY_TAKEN,
\* else the loop goes on
ClientAfterMessage(msgType) ==
    IF msgType \in FatalReplies THEN "exited" ELSE "await"

\* the outcomes of a write of the client on its connection: it succeeds on
\* a live link; once the link is broken, the server has closed it or the
\* server process is gone, it may still succeed (the bytes reach nobody)
ClientSendOutcomes ==
    IF conn[clConn] = "open" /\ srv = "running" THEN {TRUE} ELSE {TRUE, FALSE}

\* MmarClient.SendMessage: what the dispatcher of the client's connection
\* has still to read after a write with outcome ok
ClientSendMessage(frame, ok) ==
    IF ok /\ conn[clConn] = "open" /\ srv = "running"
    THEN [toServer EXCEPT ![clConn] = Append(@, frame)]
    ELSE toServer

\* MmarClient.ProcessTunnelMessages: ReceiveMessage returns the next frame
\* of the client's connection; the timer is stopped and the read deadline
\* removed; HEARTBEAT_FROM_SERVER is answered with HEARTBEAT_ACK, and
\* os.Exit(0) is called when that write fails.  ReceiveMessage reads through
\* a bufio.Reader that it makes for the call: the k frames that had arrived
\* behind the returned one when the reader filled its buffer are dropped
\* with the reader.
ClientReceiveAfter(ok, k) ==
    /\ clPc = "await"
    /\ clRead + k < Len(toClient[clConn])
    /\ LET msg == toClient[clConn][clRead + 1] IN
       /\ clRead' = clRead + 1 + k
       /\ clDeadline' = FALSE
       /\ clSub' = IF msg.type \in {"TUNNEL_CREATED", "TUNNEL_RECLAIMED"}
                   THEN msg.name ELSE clSub
       /\ IF msg.type = "HEARTBEAT_FROM_SERVER"
          THEN /\ ok \in ClientSendOutcomes
               /\ toServer' = ClientSendMessage(
                                  Frame("HEARTBEAT_ACK", EmptyName, 0, 0), ok)
               /\ clPc' = IF ok THEN LoopTop("await") ELSE "exited"
          ELSE /\ ok
               /\ toServer' = toServer
               /\ clPc' = LoopTop(ClientAfterMessage(msg.type))
    /\ UNCHANGED <<cdVars, clHandled, clCtx, clConn, regVars, srv, connVars,
                   toClient, tunVars, td,
                   req, respPending, replied>>

\* MmarClient.ProcessTunnelMessages: ReceiveMessage fails and the client
\* enters reconnectTunnel, unless the context is cancelled
ClientReceiveError ==
    /\ clPc = "await"
    /\ ClientLinkLost \/ clDeadline
    /\ clPc' = IF clCtx = "cancelled" THEN "returned" ELSE "reconnect"
    /\ clDeadline' = FALSE
    /\ UNCHANGED <<cdVars, clHandled, clCtx, clConn, clSub, clRead, toServer,
                   regVars, srv, connVars,
                   toClient, tunVars, td, req, respPending, replied>>

\* ReceiveMessage when each frame is read before the next one arrives
ClientReceive(ok) == ClientReceiveAfter(ok, 0)

\* the receiveMessageTimeout callback of ProcessTunnelMessages: after
\* HEARTBEAT_FROM_CLIENT_TIMEOUT without a message HEARTBEAT_FROM_CLIENT is
\* sent; on success a read deadline is set, on failure os.Exit(0) is called
ClientHeartbeatTimeout(ok) ==
    /\ clPc = "await"
    /\ ~clDeadline
    /\ ok \in ClientSendOutcomes
    /\ toServer' = ClientSendMessage(
                       Frame("HEARTBEAT_FROM_CLIENT", EmptyName, 0, 0), ok)
    /\ clDeadline' = ok
    /\ clPc' = IF ok THEN "await" ELSE "exited"
    /\ UNCHANGED <<cdVars, clHandled, clCtx, clConn, clSub, clRead, regVars,
                   srv, connVars,
                   toClient, tunVars, td, req, respPending, replied>>

\* client.Run after the interrupt signal: CLIENT_DISCONNECT is sent on the
\* client's connection, whatever the result of the write, and the context
\* is cancelled, while ProcessTunnelMessages waits for a message or is in
\* reconnectTunnel
Interrupt(ok) ==
    /\ clPc \in {"await", "reconnect", "dialing"}
    /\ clCtx = "live"
    /\ ok \in ClientSendOutcomes
    /\ toServer' = ClientSendMessage(
                       Frame("CLIENT_DISCONNECT", EmptyName, 0, 0), ok)
    /\ clCtx' = "cancelled"
    /\ UNCHANGED <<cdVars, clPc, clHandled, clConn, clSub, clRead, clDeadline,
                   regVars, srv, connVars, toClient, tunVars, td, req,
                   respPending, replied>>

\* client.Run returns GRACEFUL_SHUTDOWN_TIMEOUT after the cancellation: the
\* process ends and its connection with it
RunReturn ==
    /\ clCtx = "cancelled"
    /\ clPc # "exited"
    /\ clPc' = "exited"
    /\ conn' = [conn EXCEPT ![clConn] = IF @ = "open" THEN "down" ELSE @]
    /\ UNCHANGED <<cdVars, clHandled, clCtx, clConn, clSub, clRead, toServer,
                   clDeadline, regVars, srv, ip, pc, ct, pend, nGen, timer,
                   deadline, toClient, tunVars, td, req, respPending, replied>>

\* how the call fwdClient.Do(req) and the copy of its response can end:
\* a response that is read to its end; an error of Do (connection refused,
\* EOF, unexpected EOF, Client.Timeout while awaiting the headers, another
\* error); Client.Timeout while the body is read
LocalOutcomes == {"ok", "ECONNREFUSED", "EOF", "ErrUnexpectedEOF",
                  "DeadlineExceeded", "other", "BodyDeadlineExceeded"}

\* handleRequestMessage: the reply for the outcome of the call to
\* localhost.  The error of resp.Write is not looked at: what was read of
\* the response before a failure of its body is sent as a RESPONSE.
handleRequestMessage(outcome) ==
    CASE outcome \in {"ECONNREFUSED", "EOF", "ErrUnexpectedEOF"} ->
            "LOCALHOST_NOT_RUNNING"
      [] outcome = "DeadlineExceeded" -> "DEST_REQUEST_TIMEDOUT"
      [] outcome = "ok" -> "RESPONSE"
      [] outcome = "BodyDeadlineExceeded" -> "RESPONSE_BODY_SHORT"
      [] OTHER -> "INVALID_RESP_FROM_DEST"

\* the goroutine go mc.handleRequestMessage(tunnelMsg) for the REQUEST frame
\* at position i of the client's link: the request is forwarded to
\* localhost and one reply with the request-id is written; log.Fatal ends
\* the client when the write fails
ClientHandleRequest(i, outcome, ok) ==
    /\ clPc = "await"
    /\ i \in 1..clRead
    /\ toClient[clConn][i].type = "REQUEST"
    /\ \A h \in clHandled : h.frame # i
    /\ ok \in ClientSendOutcomes
    /\ LET f == toClient[clConn][i]
           k == handleRequestMessage(outcome)
       IN  /\ toServer' = ClientSendMessage(Frame(k, EmptyName, f.id, f.rq), ok)
           /\ clHandled' = clHandled \cup
                 {[frame |-> i, id |-> f.id, outcome |-> outcome,
                   reply |-> IF ok THEN k ELSE "none"]}
    /\ clPc' = IF ok THEN clPc ELSE "exited"
    /\ UNCHANGED <<cdVars, clConn, clSub, clRead, clDeadline, clCtx, regVars,
                   srv, connVars, toClient, tunVars, td, req, respPending,
                   replied>>

\* the dispatcher reads the frame at the head of what the client wrote
FromClient(c, type) ==
    /\ toServer[c] # << >>
    /\ toServer[c][1].type = type
    /\ toServer' = [toServer EXCEPT ![c] = Tail(@)]
    /\ UNCHANGED <<clPc, clConn, clSub, clRead, clDeadline, clHandled, clCtx,
                   cdVars>>

(***************************************************************************)
(* Frame codec: TunnelMessage.serializeMessage / deserializeMessage        *)
(***************************************************************************)
\* bytes are numbers; the ASCII codes the codec looks at
TUNNEL_MESSAGE_PROTOCOL_VERSION == 4
TUNNEL_MESSAGE_DATA_DELIMITER == 10
AsciiZero == 48
AsciiMinus == 45
AsciiPlus == 43
AsciiX == 120
MAX_REQ_BODY_SIZE == 10000000

\* the first and the last message type of the enumeration
REQUEST == 1
INVALID_RESP_FROM_DEST == 12

\* bounds of the codec's inputs: payload and trailing bytes
MaxPayload == 2
MaxTail == 1

\* isValidTunnelMessageType
isValidTunnelMessageType(mt) ==
    IF mt \in REQUEST..INVALID_RESP_FROM_DEST
    THEN [err |-> "none", msgType |-> mt]
    ELSE [err |-> "INVALID_MESSAGE_TYPE", msgType |-> 0]

\* strconv.Itoa: the decimal digits of n >= 0
RECURSIVE Itoa(_)
Itoa(n) ==
    IF n < 10 THEN <<AsciiZero + n>>
    ELSE Append(Itoa(n \div 10), AsciiZero + (n % 10))

\* the value of a non-empty sequence of decimal digits
RECURSIVE DigitsValue(_)
DigitsValue(s) ==
    IF Len(s) = 1 THEN s[1] - AsciiZero
    ELSE 10 * DigitsValue(SubSeq(s, 1, Len(s) - 1)) + (s[Len(s)] - AsciiZero)

\* strconv.Atoi: an optional sign and at least one decimal digit
Atoi(s) ==
    LET signed == s # << >> /\ s[1] \in {AsciiMinus, AsciiPlus}
        digits == IF signed THEN Tail(s) ELSE s
    IN  IF digits = << >>
           \/ \E i \in DOMAIN digits :
                 digits[i] \notin AsciiZero..(AsciiZero + 9)
        THEN [err |-> "ErrSyntax", val |-> 0]
        ELSE [err |-> "none",
              val |-> IF signed /\ s[1] = AsciiMinus
                      THEN 0 - DigitsValue(digits) ELSE DigitsValue(digits)]

\* a serializer that leaves the delimiter out
serializeMessageNoDelimiter(tm) ==
    [err |-> isValidTunnelMessageType(tm.MsgType).err,
     bytes |-> <<TUNNEL_MESSAGE_PROTOCOL_VERSION, tm.MsgType>>
                 \o Itoa(Len(tm.MsgData)) \o tm.MsgData]

\* TunnelMessage.serializeMessage: version, type, decimal length of the
\* data, delimiter, data
serializeMessage(tm) ==
    IF isValidTunnelMessageType(tm.MsgType).err # "none"
    THEN [err |-> isValidTunnelMessageType(tm.MsgType).err, bytes |-> << >>]
    ELSE [err |-> "none",
          bytes |-> <<TUNNEL_MESSAGE_PROTOCOL_VERSION,
                      isValidTunnelMessageType(tm.MsgType).msgType>>
                      \o Itoa(Len(tm.MsgData))
                      \o <<TUNNEL_MESSAGE_DATA_DELIMITER>>
                      \o tm.MsgData]

\* the result of a deserializeMessage call that fails with err and leaves
\* rest unread
Failed(err, rest) ==
    [err |-> err, MsgType |-> 0, MsgData |-> << >>, rest |-> rest]

\* TunnelMessage.readMessageData on the unread bytes s: make([]byte, length)
\* panics for a negative length; io.ReadFull fails with EOF when nothing
\* could be read and with ErrUnexpectedEOF when the stream ends early
readMessageData(length, s) ==
    IF length < 0 THEN Failed("panic_makeslice", s)
    ELSE IF length = 0 THEN [err |-> "none", MsgData |-> << >>, rest |-> s]
    ELSE IF s = << >> THEN Failed("EOF", << >>)
    ELSE IF Len(s) < length THEN Failed("ErrUnexpectedEOF", << >>)
    ELSE [err |-> "none", MsgData |-> SubSeq(s, 1, length),
          rest |-> SubSeq(s, length + 1, Len(s))]

\* bufio.Reader.ReadString(delim) on s: the position of the first delimiter,
\* 0 when there is none
DelimiterAt(s) ==
    IF \E i \in DOMAIN s : s[i] = TUNNEL_MESSAGE_DATA_DELIMITER
    THEN CHOOSE i \in DOMAIN s :
            /\ s[i] = TUNNEL_MESSAGE_DATA_DELIMITER
            /\ \A j \in 1..(i - 1) : s[j] # TUNNEL_MESSAGE_DATA_DELIMITER
    ELSE 0

\* TunnelMessage.deserializeMessage on the bytes s of the reader: the error,
\* the message and the bytes left unread
deserializeMessage(s) ==
    IF s = << >> THEN Failed("EOF", << >>)
    ELSE IF s[1] # TUNNEL_MESSAGE_PROTOCOL_VERSION
    THEN Failed("INVALID_MESSAGE_PROTOCOL_VERSION", Tail(s))
    ELSE IF Len(s) = 1 THEN Failed("EOF", << >>)
    ELSE IF isValidTunnelMessageType(s[2]).err # "none"
    THEN Failed(isValidTunnelMessageType(s[2]).err, Tail(Tail(s)))
    ELSE LET after == Tail(Tail(s))
             d == DelimiterAt(after)
         IN  IF d = 0 THEN Failed("EOF", << >>)
             ELSE LET msgLength == Atoi(SubSeq(after, 1, d - 1))
                      unread == SubSeq(after, d + 1, Len(after))
                  IN  IF msgLength.err # "none"
                      THEN Failed(msgLength.err, unread)
                      ELSE LET data == readMessageData(msgLength.val, unread)
                           IN  IF data.err # "none" THEN data
                               ELSE [err |-> "none",
                                     MsgType |-> isValidTunnelMessageType(s[2]).msgType,
                                     MsgData |-> data.MsgData,
                                     rest |-> data.rest]

\* the bytes of payloads and of what follows a frame on the stream
PayloadBytes == {TUNNEL_MESSAGE_DATA_DELIMITER, AsciiZero + 1, AsciiMinus}
SeqsUpTo(S, n) == UNION {[1..k -> S] : k \in 0..n}
Payloads == SeqsUpTo(PayloadBytes, MaxPayload)
Tails == SeqsUpTo(PayloadBytes, MaxTail)
MsgTypes == {0, REQUEST, 5, INVALID_RESP_FROM_DEST, INVALID_RESP_FROM_DEST + 1}

\* the length fields a peer can put in a frame: decimal, signed, empty, not
\* numeric, and around the largest length a frame may announce
MaxMessageLength == MAX_REQ_BODY_SIZE + 16 * 1024
LengthFields == {Itoa(0), Itoa(1), Itoa(2), <<AsciiMinus, AsciiZero + 1>>,
                 <<AsciiPlus, AsciiZero + 1>>, << >>, <<AsciiX>>,
                 <<AsciiZero + 1, AsciiX>>, <<AsciiMinus>>,
                 Itoa(MaxMessageLength), Itoa(MaxMessageLength + 1)}

\* Tunnel.SendMessage: a peer serializes tm and writes it, followed by tail,
\* on the stream
CodecSend(tm, tail) ==
    /\ serializeMessage(tm).err = "none"
    /\ wire' = serializeMessage(tm).bytes \o tail
    /\ sent' = [kind |-> "message", MsgType |-> tm.MsgType,
                MsgData |-> tm.MsgData, lengthField |-> Itoa(Len(tm.MsgData)),
                tail |-> tail]
    /\ decoded' = IdleDecoded
    /\ UNCHANGED mmarVars

\* serializeMessage refuses a message whose type is not valid
CodecSendInvalid(tm) ==
    /\ serializeMessage(tm).err # "none"
    /\ sent' = [kind |-> "refused", MsgType |-> tm.MsgType,
                MsgData |-> tm.MsgData, lengthField |-> << >>, tail |-> << >>]
    /\ wire' = << >>
    /\ decoded' = IdleDecoded
    /\ UNCHANGED mmarVars

\* a peer writes a frame with a valid version and type, the length field lf
\* and the bytes payload after the delimiter
CodecInject(mt, lf, payload) ==
    /\ wire' = <<TUNNEL_MESSAGE_PROTOCOL_VERSION, mt>> \o lf
                  \o <<TUNNEL_MESSAGE_DATA_DELIMITER>> \o payload
    /\ sent' = [kind |-> "raw", MsgType |-> mt, MsgData |-> payload,
                lengthField |-> lf, tail |-> << >>]
    /\ decoded' = IdleDecoded
    /\ UNCHANGED mmarVars

\* Tunnel.ReceiveMessage: deserializeMessage on the stream
CodecReceive ==
    /\ sent.kind \in {"message", "raw"}
    /\ decoded = IdleDecoded
    /\ decoded' = deserializeMessage(wire)
    /\ UNCHANGED <<wire, sent, mmarVars>>

\* the errors of deserializeMessage that utils.NetworkError recognises
NetworkErrors == {"EOF", "ErrUnexpectedEOF"}

\* the versions a peer can put in a frame
ProtocolVersions == {TUNNEL_MESSAGE_PROTOCOL_VERSION,
                     TUNNEL_MESSAGE_PROTOCOL_VERSION - 1}

\* a peer writes the frame <<v, mt>>, lf, delimiter, payload on the link of
\* the reader that is about to call ReceiveMessage
PeerWrite(v, mt, lf, payload) ==
    /\ srv = "running"
    /\ sent.kind = "none" \/ decoded # IdleDecoded
    /\ wire' = <<v, mt>> \o lf \o <<TUNNEL_MESSAGE_DATA_DELIMITER>> \o payload
    /\ sent' = [kind |-> "raw", MsgType |-> mt, MsgData |-> payload,
                lengthField |-> lf, tail |-> << >>]
    /\ decoded' = IdleDecoded
    /\ UNCHANGED mmarVars

\* processTunnelMessages when ReceiveMessage returns an error that is not a
\* network error: the error is logged and the loop continues with a new
\* timer and a new reader; a negative length has panicked in make([]byte)
DispatchReceiveError(c) ==
    /\ CanReceive(c)
    /\ conn[c] = "open"
    /\ sent.kind = "raw"
    /\ decoded = IdleDecoded
    /\ LET d == deserializeMessage(wire) IN
       /\ d.err \notin {"none"} \cup NetworkErrors
       /\ decoded' = d
       /\ srv' = IF d.err = "panic_makeslice" THEN "panic_makeslice" ELSE srv
    /\ wire' = << >>
    /\ timer' = [timer EXCEPT ![c] = "armed"]
    /\ deadline' = [deadline EXCEPT ![c] = FALSE]
    /\ UNCHANGED <<regVars, conn, ip, pc, ct, pend, nGen, toClient, tunVars,
                   td, req, respPending, replied, clVars, sent>>

\* MmarClient.ProcessTunnelMessages when ReceiveMessage returns an error on
\* a live link: os.Exit(0) on INVALID_MESSAGE_PROTOCOL_VERSION, else
\* reconnectTunnel; a negative length has panicked in make([]byte)
ClientProtocolError ==
    /\ clPc = "await"
    /\ conn[clConn] = "open"
    /\ sent.kind = "raw"
    /\ decoded = IdleDecoded
    /\ LET d == deserializeMessage(wire) IN
       /\ d.err \notin {"none"} \cup NetworkErrors
       /\ decoded' = d
       /\ clPc' = IF d.err = "panic_makeslice" THEN "exited"
                  ELSE IF clCtx = "cancelled" THEN "returned"
                  ELSE IF d.err = "INVALID_MESSAGE_PROTOCOL_VERSION"
                  THEN "exited" ELSE "reconnect"
    /\ wire' = << >>
    /\ clDeadline' = FALSE
    /\ UNCHANGED <<regVars, srv, connVars, toClient, tunVars, td, req,
                   respPending, replied, clConn, clSub, clRead, toServer,
                   clHandled, clCtx, sent>>

NextCodec ==
    \/ \E mt \in MsgTypes, data \in Payloads, tail \in Tails :
          CodecSend([MsgType |-> mt, MsgData |-> data], tail)
    \/ \E mt \in MsgTypes, data \in Payloads :
          CodecSendInvalid([MsgType |-> mt, MsgData |-> data])
    \/ \E lf \in LengthFields, payload \in Payloads :
          CodecInject(REQUEST, lf, payload)
    \/ CodecReceive

SpecCodec == Init /\ [][NextCodec]_vars

(***************************************************************************)
(* Specifications of the server with arbitrary peers                       *)
(***************************************************************************)
\* cancellation causes of serializeRequest
SerializeCauses == {"READ_BODY_CHUNK_TIMEOUT_ERR", "READ_BODY_CHUNK_ERR",
                    "MAX_REQ_BODY_SIZE_ERR"}

\* the steps of the tunnel manager for connections CS from addresses AS,
\* with CREATE_TUNNEL names CN and RECLAIM_TUNNEL names RN; the step of an
\* IP at its limit, which needs MAX_TUNNELS_PER_IP tunnels, is LimitNext
LimitNext(CS) == \E c \in CS : newClientTunnelLimit(c) /\ UNCHANGED <<clVars, cdVars>>

ManagerNext(CS, AS, CN, RN) ==
    \/ \E c \in CS, addr \in AS : handleTcpConnection(c, addr)
             /\ UNCHANGED <<clVars, cdVars>>
    \/ \E c \in CS : LinkDown(c) /\ UNCHANGED <<clVars, cdVars>>
    \/ \E c \in CS, name \in CN : DispatchCreateTunnel(c, name)
             /\ UNCHANGED <<clVars, cdVars>>
    \/ \E c \in CS, name \in RN : DispatchReclaimTunnel(c, name)
             /\ UNCHANGED <<clVars, cdVars>>
    \/ \E c \in CS : newClientTunnelLock(c) /\ UNCHANGED <<clVars, cdVars>>
    \/ \E c \in CS : newClientTunnelInsert(c) /\ UNCHANGED <<clVars, cdVars>>
    \/ \E c \in CS, ok \in BOOLEAN : newClientTunnelSend(c, ok)
             /\ UNCHANGED <<clVars, cdVars>>
    \/ \E c \in CS : DispatchClientDisconnect(c) /\ UNCHANGED <<clVars, cdVars>>
    \/ \E c \in CS : DispatchNetworkError(c) /\ UNCHANGED <<clVars, cdVars>>
    \/ \E c \in CS : DispatchHeartbeatAck(c) /\ UNCHANGED <<clVars, cdVars>>
    \/ \E c \in CS, ok \in BOOLEAN : DispatchHeartbeatFromClient(c, ok)
             /\ UNCHANGED <<clVars, cdVars>>
    \/ \E c \in CS, ok \in BOOLEAN : HeartbeatTimeout(c, ok)
             /\ UNCHANGED <<clVars, cdVars>>
    \/ \E c \in CS, k \in Tasks : closeClientTunnelFinish(c, k)
             /\ UNCHANGED <<clVars, cdVars>>
    \/ \E c \in CS, k \in Tasks : closeClientTunnelClose(c, k)
             /\ UNCHANGED <<clVars, cdVars>>

\* the steps of the router for requests RS with Host labels LS, and of the
\* response path of connections CS for replies of kinds KS
RouterNext(CS, RS, LS, KS) ==
    \/ \E r \in RS, label \in LS, v \in BOOLEAN :
          ServeHTTPLookup(r, HostOf(label), v) /\ UNCHANGED <<clVars, cdVars>>
    \/ \E r \in RS : ServeHTTPSerialized(r) /\ UNCHANGED <<clVars, cdVars>>
    \/ \E r \in RS, cause \in SerializeCauses : serializeRequestCancel(r, cause)
             /\ UNCHANGED <<clVars, cdVars>>
    \/ \E r \in RS : EndUserGone(r) /\ UNCHANGED <<clVars, cdVars>>
    \/ \E r \in RS : ServeHTTPSerializeCancelled(r) /\ UNCHANGED <<clVars, cdVars>>
    \/ \E r \in RS : ServeHTTPGenerate(r) /\ UNCHANGED <<clVars, cdVars>>
    \/ \E r \in RS, ok \in BOOLEAN : ServeHTTPStoreSend(r, ok)
             /\ UNCHANGED <<clVars, cdVars>>
    \/ \E r \in RS : ServeHTTPCancelled(r) /\ UNCHANGED <<clVars, cdVars>>
    \/ \E c \in CS, k \in KS :
          \E i \in DOMAIN toClient[c] : DispatchResponse(c, i, k)
             /\ UNCHANGED <<clVars, cdVars>>
    \/ \E c \in CS : \E m \in respPending[c] : handleResponseMessages(c, m)
             /\ UNCHANGED <<clVars, cdVars>>

\* Spec: one tunnel connection and one end-user request, with every kind
\* of name, Host label and reply
MainNames == {EmptyName, nAbc123, nWww, nUpperAb}
MainLabels == {nAbc123, nStats, nMyApp, nUpperAb}
Next ==
    \/ ManagerNext({1}, {"ip1"}, MainNames, {nAbc123})
    \/ RouterNext({1}, {1}, MainLabels, ReplyKinds)

Spec == Init /\ [][Next]_vars

\* SpecRouter: MaxReqs end-user requests for the subdomain of one tunnel
RouterKinds == {"RESPONSE"}
NextRouter ==
    \/ ManagerNext({1}, {"ip1"}, {nAbc123}, {nAbc123})
    \/ RouterNext({1}, Reqs, {nAbc123}, RouterKinds)

SpecRouter == Init /\ [][NextRouter]_vars

\* SpecReplies: MaxReqs end-user requests on one tunnel whose client
\* answers with error frames
NextReplies ==
    \/ handleTcpConnection(1, "ip1") /\ UNCHANGED <<clVars, cdVars>>
    \/ DispatchCreateTunnel(1, nAbc123) /\ UNCHANGED <<clVars, cdVars>>
    \/ newClientTunnelLock(1) /\ UNCHANGED <<clVars, cdVars>>
    \/ newClientTunnelInsert(1) /\ UNCHANGED <<clVars, cdVars>>
    \/ newClientTunnelSend(1, TRUE) /\ UNCHANGED <<clVars, cdVars>>
    \/ RouterNext({1}, Reqs, {nAbc123}, ErrorReplyKinds)

SpecReplies == Init /\ [][NextReplies]_vars

\* SpecManager: MaxConns tunnel connections and no end-user request
ManagerNames == {EmptyName, nAdmin, nStats, nWww, nApi, nApp, nAbc123,
                 nUpperWww, nLeadDash}
NextManager ==
    ManagerNext(CoreConns, IPs, ManagerNames, {EmptyName, nAbc123, nApi})

SpecManager == Init /\ [][NextManager]_vars

\* SpecQuota: QuotaConns peers of one IP connect one after the other, each
\* asks for a tunnel under a name of its own, and the first peers may send
\* CLIENT_DISCONNECT at any time
DigitSeq == <<"1","2","3","4","5","6","7","8","9">>
QuotaName(c) == <<"t", DigitSeq[c]>>
QuotaLeavers == {1, 2}
QuotaAccept(c) ==
    /\ IF c = 1 THEN TRUE ELSE ct[c - 1] # 0 \/ pc[c - 1] = "done"
    /\ handleTcpConnection(c, "ip1")
NextQuota ==
    \/ \E c \in Conns : QuotaAccept(c) /\ UNCHANGED <<clVars, cdVars>>
    \/ \E c \in Conns : DispatchCreateTunnel(c, QuotaName(c))
             /\ UNCHANGED <<clVars, cdVars>>
    \/ \E c \in Conns : newClientTunnelLock(c) /\ UNCHANGED <<clVars, cdVars>>
    \/ LimitNext(Conns)
    \/ \E c \in Conns : newClientTunnelInsert(c) /\ UNCHANGED <<clVars, cdVars>>
    \/ \E c \in Conns : newClientTunnelSend(c, TRUE) /\ UNCHANGED <<clVars, cdVars>>
    \/ \E c \in QuotaLeavers : DispatchClientDisconnect(c)
             /\ UNCHANGED <<clVars, cdVars>>
    \/ \E c \in QuotaLeavers : closeClientTunnelFinish(c, "disp")
             /\ UNCHANGED <<clVars, cdVars>>
    \/ \E c \in QuotaLeavers : closeClientTunnelClose(c, "disp")
             /\ UNCHANGED <<clVars, cdVars>>

SpecQuota == Init /\ [][NextQuota]_vars

\* SpecClient: PeerConns peers of one IP ask for tunnels t1, t2, ... one
\* after the other; then the mmar client dials, from the same IP, with no
\* name, a reserved name or the name of the first peer; its link may break
PeerConns == 1..MAX_TUNNELS_PER_IP
ClientFirstConn == MAX_TUNNELS_PER_IP + 1
ClientConns == {ClientFirstConn, ClientFirstConn + 1}
ClientNames == {EmptyName, nWww, QuotaName(1)}
ClientDispatcher(c) ==
    \/ FromClient(c, "CREATE_TUNNEL")
          /\ DispatchCreateTunnel(c, toServer[c][1].name)
    \/ FromClient(c, "RECLAIM_TUNNEL")
          /\ DispatchReclaimTunnel(c, toServer[c][1].name)
    \/ DispatchNetworkError(c) /\ UNCHANGED <<clVars, cdVars>>
NextClient ==
    \/ \E c \in PeerConns : QuotaAccept(c) /\ UNCHANGED <<clVars, cdVars>>
    \/ \E c \in PeerConns : DispatchCreateTunnel(c, QuotaName(c))
             /\ UNCHANGED <<clVars, cdVars>>
    \/ \E c \in Conns : newClientTunnelLock(c) /\ UNCHANGED <<clVars, cdVars>>
    \/ LimitNext(Conns)
    \/ \E c \in Conns : newClientTunnelInsert(c)
             /\ UNCHANGED <<clVars, cdVars>>
    \/ \E c \in Conns : newClientTunnelSend(c, TRUE)
             /\ UNCHANGED <<clVars, cdVars>>
    \/ \E name \in ClientNames : Run(ClientFirstConn, name)
    \/ \E c \in ClientConns : reconnectTunnel(c)
    \/ \E ok \in BOOLEAN : ClientReceive(ok)
    \/ ClientReceiveError
    \/ \E c \in ClientConns : ClientDispatcher(c)
    \/ LinkDown(ClientFirstConn) /\ UNCHANGED <<clVars, cdVars>>
    \/ \E c \in ClientConns : closeClientTunnelFinish(c, "disp")
             /\ UNCHANGED <<clVars, cdVars>>
    \/ \E c \in ClientConns : closeClientTunnelClose(c, "disp")
             /\ UNCHANGED <<clVars, cdVars>>

SpecClient == Init /\ [][NextClient]_vars

\* SpecHeartbeat: the server with one mmar client, the heartbeat timers and
\* the read deadlines of both sides; the client's first link may break or
\* fall silent.
HbConns == 1..MaxConns
HbDispatcher(c) ==
    \/ FromClient(c, "CREATE_TUNNEL")
          /\ DispatchCreateTunnel(c, toServer[c][1].name)
    \/ FromClient(c, "RECLAIM_TUNNEL")
          /\ DispatchReclaimTunnel(c, toServer[c][1].name)
    \/ \E ok \in BOOLEAN :
          FromClient(c, "HEARTBEAT_FROM_CLIENT")
             /\ DispatchHeartbeatFromClient(c, ok)
    \/ FromClient(c, "HEARTBEAT_ACK") /\ DispatchHeartbeatAck(c)
    \/ newClientTunnelLock(c) /\ UNCHANGED <<clVars, cdVars>>
    \/ newClientTunnelInsert(c) /\ UNCHANGED <<clVars, cdVars>>
    \/ \E ok \in BOOLEAN :
          newClientTunnelSend(c, ok) /\ UNCHANGED <<clVars, cdVars>>
    \/ DispatchNetworkError(c) /\ UNCHANGED <<clVars, cdVars>>
NextHeartbeat ==
    \/ Run(1, EmptyName)
    \/ reconnectTunnel(2)
    \/ \E ok \in BOOLEAN : ClientReceive(ok)
    \/ ClientReceiveError
    \/ \E ok \in BOOLEAN : ClientHeartbeatTimeout(ok)
    \/ \E c \in HbConns : HbDispatcher(c)
    \/ \E c \in HbConns, ok \in BOOLEAN :
          HeartbeatTimeout(c, ok) /\ UNCHANGED <<clVars, cdVars>>
    \/ \E c \in HbConns, k \in Tasks :
          closeClientTunnelFinish(c, k) /\ UNCHANGED <<clVars, cdVars>>
    \/ \E c \in HbConns, k \in Tasks :
          closeClientTunnelClose(c, k) /\ UNCHANGED <<clVars, cdVars>>
    \/ LinkDown(1) /\ UNCHANGED <<clVars, cdVars>>

SpecHeartbeat == Init /\ [][NextHeartbeat]_vars

\* SpecTimers: SpecHeartbeat with timer callbacks that run as the receive
\* they were armed for returns
NextTimers ==
    \/ NextHeartbeat
    \/ \E c \in HbConns, ok \in BOOLEAN :
          HeartbeatTimeoutLate(c, ok) /\ UNCHANGED <<clVars, cdVars>>

SpecTimers == Init /\ [][NextTimers]_vars

\* SpecShutdown: the server with one mmar client whose link may break and
\* whose user may interrupt it at any time
ShutdownDispatcher(c) ==
    \/ ClientDispatcher(c)
    \/ FromClient(c, "CLIENT_DISCONNECT") /\ DispatchClientDisconnect(c)
    \/ newClientTunnelLock(c) /\ UNCHANGED <<clVars, cdVars>>
    \/ newClientTunnelInsert(c) /\ UNCHANGED <<clVars, cdVars>>
    \/ \E ok \in BOOLEAN :
          newClientTunnelSend(c, ok) /\ UNCHANGED <<clVars, cdVars>>
NextShutdown ==
    \/ Run(1, EmptyName)
    \/ reconnectTunnel(2)
    \/ reconnectTunnelDial
    \/ reconnectTunnelCancelled
    \/ reconnectTunnelSend(2)
    \/ \E ok \in BOOLEAN : Interrupt(ok)
    \/ RunReturn
    \/ \E ok \in BOOLEAN : ClientReceive(ok)
    \/ ClientReceiveError
    \/ \E c \in HbConns : ShutdownDispatcher(c)
    \/ \E c \in HbConns, k \in Tasks :
          closeClientTunnelFinish(c, k) /\ UNCHANGED <<clVars, cdVars>>
    \/ \E c \in HbConns, k \in Tasks :
          closeClientTunnelClose(c, k) /\ UNCHANGED <<clVars, cdVars>>
    \/ LinkDown(1) /\ UNCHANGED <<clVars, cdVars>>

SpecShutdown == Init /\ [][NextShutdown]_vars

\* SpecRebind: one tunnel connection whose peer sends CREATE_TUNNEL and
\* RECLAIM_TUNNEL more than once, and a second connection that asks once
RebindNames == {EmptyName, nAbc123, nApi}
NextRebind ==
    \/ \E c \in CoreConns : handleTcpConnection(c, "ip1")
             /\ UNCHANGED <<clVars, cdVars>>
    \/ \E name \in RebindNames : DispatchCreateTunnelUpTo(1, name, MaxGen + 1)
             /\ UNCHANGED <<clVars, cdVars>>
    \/ \E name \in RebindNames : DispatchReclaimTunnelUpTo(1, name, MaxGen + 1)
             /\ UNCHANGED <<clVars, cdVars>>
    \/ DispatchCreateTunnel(2, nApi) /\ UNCHANGED <<clVars, cdVars>>
    \/ \E c \in CoreConns : newClientTunnelLock(c) /\ UNCHANGED <<clVars, cdVars>>
    \/ \E c \in CoreConns : newClientTunnelInsert(c)
             /\ UNCHANGED <<clVars, cdVars>>
    \/ \E c \in CoreConns, ok \in BOOLEAN : newClientTunnelSend(c, ok)
             /\ UNCHANGED <<clVars, cdVars>>
    \/ \E c \in CoreConns : DispatchClientDisconnect(c)
             /\ UNCHANGED <<clVars, cdVars>>
    \/ \E c \in CoreConns : DispatchNetworkError(c)
             /\ UNCHANGED <<clVars, cdVars>>
    \/ \E c \in CoreConns : LinkDown(c) /\ UNCHANGED <<clVars, cdVars>>
    \/ \E c \in CoreConns, k \in Tasks : closeClientTunnelFinish(c, k)
             /\ UNCHANGED <<clVars, cdVars>>
    \/ \E c \in CoreConns, k \in Tasks : closeClientTunnelClose(c, k)
             /\ UNCHANGED <<clVars, cdVars>>

SpecRebind == Init /\ [][NextRebind]_vars

\* SpecReplay: MaxReqs end-user requests on one tunnel whose client may
\* send a reply more than once
NextReplay ==
    \/ handleTcpConnection(1, "ip1") /\ UNCHANGED <<clVars, cdVars>>
    \/ DispatchCreateTunnel(1, nAbc123) /\ UNCHANGED <<clVars, cdVars>>
    \/ newClientTunnelLock(1) /\ UNCHANGED <<clVars, cdVars>>
    \/ newClientTunnelInsert(1) /\ UNCHANGED <<clVars, cdVars>>
    \/ newClientTunnelSend(1, TRUE) /\ UNCHANGED <<clVars, cdVars>>
    \/ RouterNext({1}, Reqs, {nAbc123}, RouterKinds)
    \/ \E i \in DOMAIN toClient[1], k \in RouterKinds :
          DispatchResponseRepeat(1, i, k) /\ UNCHANGED <<clVars, cdVars>>

SpecReplay == Init /\ [][NextReplay]_vars

\* SpecSerializer: SpecReplay's tunnel and requests without the repeated
\* replies, with the serializer goroutine of each request followed to its
\* end; a serializer that can take a step does so
SerializerStep(r) ==
    /\ serializeRequestReadFails(r) \/ serializeRequestHandover(r)
    /\ UNCHANGED <<clVars, cdVars>>
NextSerializer ==
    \/ handleTcpConnection(1, "ip1") /\ UNCHANGED <<clVars, cdVars>>
    \/ DispatchCreateTunnel(1, nAbc123) /\ UNCHANGED <<clVars, cdVars>>
    \/ newClientTunnelLock(1) /\ UNCHANGED <<clVars, cdVars>>
    \/ newClientTunnelInsert(1) /\ UNCHANGED <<clVars, cdVars>>
    \/ newClientTunnelSend(1, TRUE) /\ UNCHANGED <<clVars, cdVars>>
    \/ RouterNext({1}, Reqs, {nAbc123}, RouterKinds)
    \/ \E r \in Reqs : SerializerStep(r)

SpecSerializer ==
    /\ Init
    /\ [][NextSerializer]_vars
    /\ \A r \in Reqs : WF_vars(SerializerStep(r))

\* SpecUnbound: a tunnel on connection 1 with one end-user request, and a
\* connection 2 whose peer never asks for a tunnel: it sends replies and
\* CLIENT_DISCONNECT, or its link breaks
UnboundConn == CHOOSE c \in Conns : c # 1
NextUnbound ==
    \/ \E c \in {1, UnboundConn} : handleTcpConnection(c, "ip1")
             /\ UNCHANGED <<clVars, cdVars>>
    \/ DispatchCreateTunnel(1, nAbc123) /\ UNCHANGED <<clVars, cdVars>>
    \/ newClientTunnelLock(1) /\ UNCHANGED <<clVars, cdVars>>
    \/ newClientTunnelInsert(1) /\ UNCHANGED <<clVars, cdVars>>
    \/ newClientTunnelSend(1, TRUE) /\ UNCHANGED <<clVars, cdVars>>
    \/ RouterNext({1, UnboundConn}, {1}, {nAbc123}, RouterKinds)
    \/ \E id \in {0, 1}, k \in {"RESPONSE", "LOCALHOST_NOT_RUNNING"} :
          DispatchResponseUnsolicited(UnboundConn, id, k)
             /\ UNCHANGED <<clVars, cdVars>>
    \/ DispatchClientDisconnect(UnboundConn) /\ UNCHANGED <<clVars, cdVars>>
    \/ LinkDown(UnboundConn) /\ UNCHANGED <<clVars, cdVars>>
    \/ DispatchNetworkError(UnboundConn) /\ UNCHANGED <<clVars, cdVars>>

SpecUnbound == Init /\ [][NextUnbound]_vars

\* SpecProtocol: the server with one mmar client on a live link on which
\* frames with any version, type and length field arrive at either side
NextProtocol ==
    \/ Run(1, EmptyName)
    \/ reconnectTunnel(2)
    \/ \E ok \in BOOLEAN : ClientReceive(ok)
    \/ ClientReceiveError
    \/ \E c \in HbConns : ClientDispatcher(c)
    \/ \E c \in HbConns : newClientTunnelLock(c) /\ UNCHANGED <<clVars, cdVars>>
    \/ \E c \in HbConns : newClientTunnelInsert(c)
             /\ UNCHANGED <<clVars, cdVars>>
    \/ \E c \in HbConns : newClientTunnelSend(c, TRUE)
             /\ UNCHANGED <<clVars, cdVars>>
    \/ LinkDown(1) /\ UNCHANGED <<clVars, cdVars>>
    \/ \E c \in HbConns, k \in Tasks :
          closeClientTunnelFinish(c, k) /\ UNCHANGED <<clVars, cdVars>>
    \/ \E c \in HbConns, k \in Tasks :
          closeClientTunnelClose(c, k) /\ UNCHANGED <<clVars, cdVars>>
    \/ \E v \in ProtocolVersions, mt \in {0, REQUEST}, lf \in LengthFields :
          PeerWrite(v, mt, lf, << >>)
    \/ \E c \in HbConns : DispatchReceiveError(c)
    \/ ClientProtocolError

SpecProtocol == Init /\ [][NextProtocol]_vars

\* SpecForward: MaxReqs end-user requests for the subdomain of the mmar
\* client, which forwards each REQUEST frame to localhost; the link may
\* break
NextForward ==
    \/ Run(1, nAbc123)
    \/ \E ok \in BOOLEAN, k \in 0..MaxReqs : ClientReceiveAfter(ok, k)
    \/ FromClient(1, "CREATE_TUNNEL")
          /\ DispatchCreateTunnel(1, toServer[1][1].name)
    \/ newClientTunnelLock(1) /\ UNCHANGED <<clVars, cdVars>>
    \/ newClientTunnelInsert(1) /\ UNCHANGED <<clVars, cdVars>>
    \/ newClientTunnelSend(1, TRUE) /\ UNCHANGED <<clVars, cdVars>>
    \/ \E r \in Reqs :
          ServeHTTPLookup(r, HostOf(nAbc123), FALSE)
             /\ UNCHANGED <<clVars, cdVars>>
    \/ \E r \in Reqs : ServeHTTPSerialized(r) /\ UNCHANGED <<clVars, cdVars>>
    \/ \E r \in Reqs : ServeHTTPGenerate(r) /\ UNCHANGED <<clVars, cdVars>>
    \/ \E r \in Reqs :
          ServeHTTPStoreSend(r, TRUE) /\ UNCHANGED <<clVars, cdVars>>
    \/ \E i \in 1..(MaxReqs + 1), outcome \in LocalOutcomes, ok \in BOOLEAN :
          ClientHandleRequest(i, outcome, ok)
    \/ LinkDown(1) /\ UNCHANGED <<clVars, cdVars>>

SpecForward == Init /\ [][NextForward]_vars

\* SpecFair: the server with one mmar client whose first link may break.
\* Every goroutine that can take a step eventually takes one: the
\* dispatcher of each connection, each closeClientTunnel call, and the
\* client's ProcessTunnelMessages; link failures and timers are not forced.
FairConns == 1..MaxConns
FairDispatcher(c) ==
    \/ FromClient(c, "CREATE_TUNNEL")
          /\ DispatchCreateTunnel(c, toServer[c][1].name)
    \/ FromClient(c, "RECLAIM_TUNNEL")
          /\ DispatchReclaimTunnel(c, toServer[c][1].name)
    \/ FromClient(c, "HEARTBEAT_ACK") /\ DispatchHeartbeatAck(c)
    \/ newClientTunnelLock(c) /\ UNCHANGED <<clVars, cdVars>>
    \/ newClientTunnelInsert(c) /\ UNCHANGED <<clVars, cdVars>>
    \/ \E ok \in BOOLEAN : newClientTunnelSend(c, ok) /\ UNCHANGED <<clVars, cdVars>>
    \/ DispatchNetworkError(c) /\ UNCHANGED <<clVars, cdVars>>
FairTeardown(c) ==
    \/ \E k \in Tasks : closeClientTunnelFinish(c, k) /\ UNCHANGED <<clVars, cdVars>>
    \/ \E k \in Tasks : closeClientTunnelClose(c, k) /\ UNCHANGED <<clVars, cdVars>>
FairClient ==
    \/ \E c \in FairConns : Run(c, EmptyName)
    \/ \E c \in FairConns : reconnectTunnel(c)
    \/ \E ok \in BOOLEAN : ClientReceive(ok)
    \/ ClientReceiveError
NextFair ==
    \/ \E c \in FairConns : FairDispatcher(c)
    \/ \E c \in FairConns : FairTeardown(c)
    \/ FairClient
    \/ LinkDown(1) /\ UNCHANGED <<clVars, cdVars>>
    \/ \E c \in FairConns, ok \in BOOLEAN :
          HeartbeatTimeout(c, ok) /\ UNCHANGED <<clVars, cdVars>>

SpecFair ==
    /\ Init
    /\ [][NextFair]_vars
    /\ \A c \in FairConns : WF_vars(FairDispatcher(c))
    /\ \A c \in FairConns : WF_vars(FairTeardown(c))
    /\ WF_vars(FairClient)

\* SpecRelease: SpecRouter in which every ServeHTTP call, every
\* handleResponseMessages goroutine and every closeClientTunnel goes on
\* running when it can; the peers and the end-users are not obliged to act
ReleaseHandler(r) ==
    /\ \/ ServeHTTPSerialized(r)
       \/ ServeHTTPSerializeCancelled(r)
       \/ ServeHTTPGenerate(r)
       \/ \E ok \in BOOLEAN : ServeHTTPStoreSend(r, ok)
       \/ ServeHTTPCancelled(r)
    /\ UNCHANGED <<clVars, cdVars>>
ReleaseResponses ==
    /\ \E m \in respPending[1] : handleResponseMessages(1, m)
    /\ UNCHANGED <<clVars, cdVars>>

SpecRelease ==
    /\ Init
    /\ [][NextRouter]_vars
    /\ \A r \in Reqs : WF_vars(ReleaseHandler(r))
    /\ WF_vars(ReleaseResponses)
    /\ WF_vars(FairTeardown(1))

(***************************************************************************)
(* Properties                                                              *)
(***************************************************************************)
\* no REQUEST frame was written for end-user request r, on any link
NoRequestFrame(r) ==
    \A c \in Conns : \A i \in DOMAIN toClient[c] :
        ~(toClient[c][i].type = "REQUEST" /\ toClient[c][i].rq = r)

\* a tunnel connection that is bound and not being torn down
Live(c) ==
    /\ ct[c] # 0
    /\ conn[c] = "open"
    /\ pc[c] = "recv"
    /\ \A k \in Tasks : td[c][k].step = "idle"

\* C1: a response handed to an end-user request is the client's reply to
\* the REQUEST frame of that same request, never the reply produced for
\* another request
C1_ReplyReachesItsRequest ==
    \A r \in Reqs :
        (req[r].pc = "done" /\ req[r].from # 0) => req[r].from = r

\* C2: no two live tunnel connections are bound to the same subdomain
C2_UniqueBinding ==
    \A c1 \in Conns, c2 \in Conns :
        (c1 # c2 /\ Live(c1) /\ Live(c2))
            => tunId[<<c1, ct[c1]>>] # tunId[<<c2, ct[c2]>>]

\* the registry keys bound to tunnels of peer IP a
BoundFor(a) == {s \in DOMAIN clients : ip[clients[s][1]] = a}

\* C3: the number of subdomains bound for one peer IP never exceeds
\* MAX_TUNNELS_PER_IP
C3_PerIPLimit ==
    \A a \in IPs : Cardinality(BoundFor(a)) <= MAX_TUNNELS_PER_IP

\* C4: within one tunnel no two requests that wait for a response hold the
\* same request-id, and none holds id 0
C4_UniqueRequestIds ==
    /\ \A r \in Reqs : req[r].pc = "wait" => req[r].id # 0
    /\ \A r1 \in Reqs, r2 \in Reqs :
          (/\ r1 # r2
           /\ req[r1].pc = "wait" /\ req[r1].cause = "none"
           /\ req[r2].pc = "wait" /\ req[r2].cause = "none"
           /\ req[r1].tun = req[r2].tun)
             => req[r1].id # req[r2].id

\* the client holds subdomain S and its link is broken
C5_LinkLost ==
    /\ clPc = "await" /\ clSub # EmptyName
    /\ conn[clConn] = "down"

\* the client's subdomain is bound to the client's open connection, so
\* that ServeHTTP forwards the requests for it to that connection
C5_Rebound ==
    /\ clPc = "await" /\ clSub # EmptyName
    /\ conn[clConn] = "open"
    /\ clSub \in DOMAIN clients
    /\ clients[clSub][1] = clConn

\* C5: when the link of a client that holds subdomain S breaks, then
\* eventually S is bound to a new connection of the client
C5_ReclaimAfterLinkDown == C5_LinkLost ~> C5_Rebound

\* C6: when a step removes a tunnel's subdomain from the registry, every
\* request in that tunnel's inflight map has been cancelled with
\* CLIENT_DISCONNECTED_ERR by the end of that step
C6_CancelBeforeRelease ==
    [][\A s \in DOMAIN clients :
          s \notin DOMAIN clients' =>
              \A id \in DOMAIN inflight[clients[s]] :
                  req'[inflight[clients[s]][id]].cause
                      = "CLIENT_DISCONNECTED_ERR"]_vars

\* C7: a second teardown of a tunnel raises no failure
C7_SecondTeardownIsNoOp == srv # "panic_drainChannels"

\* C8, as stated: every request whose subdomain was no registry key at
\* lookup time got 200 and the CLIENT_DISCONNECT text and no REQUEST frame
C8_UnknownSubdomainAsStated ==
    \A r \in Reqs :
        (req[r].pc # "idle" /\ ~req[r].clientExists)
            => /\ req[r].pc = "done"
               /\ req[r].status = 200
               /\ req[r].body = CLIENT_DISCONNECT_ERR_TEXT
               /\ NoRequestFrame(r)

\* C8: every request whose lower-cased first Host label is not stats and was
\* no registry key at lookup time got 200 and the CLIENT_DISCONNECT text,
\* and no REQUEST frame was written for it
C8_UnknownSubdomain ==
    \A r \in Reqs :
        (req[r].pc # "idle" /\ ~req[r].clientExists /\ req[r].sub # nStats)
            => /\ req[r].pc = "done"
               /\ req[r].status = 200
               /\ req[r].body = CLIENT_DISCONNECT_ERR_TEXT
               /\ NoRequestFrame(r)

\* a request for an unknown subdomain was answered while another subdomain
\* is bound
C8_Witness ==
    \E r \in Reqs :
        /\ req[r].pc = "done" /\ ~req[r].clientExists /\ req[r].sub = nMyApp
        /\ req[r].status = 200
        /\ DOMAIN clients # {}

\* C9: no registry key is the empty string or, compared without case, one
\* of admin, stats, www, api, app
C9_NoReservedKey ==
    \A s \in DOMAIN clients :
        s # EmptyName /\ ~Contains(validationReserved, ToLower(s))

\* a reserved name was refused on one connection while a generated
\* subdomain is bound on another
C9_Witness ==
    \E c1 \in Conns, c2 \in Conns :
        /\ Contains(validationReserved, ToLower(pend[c1]))
        /\ pc[c1] = "done"
        /\ \E i \in DOMAIN toClient[c1] :
              toClient[c1][i].type = "INVALID_SUBDOMAIN_NAME"
        /\ Live(c2)
        /\ tunId[<<c2, ct[c2]>>] \in DOMAIN clients

C12_Status(k) == IF k = "INVALID_RESP_FROM_DEST" THEN 500 ELSE 200

\* C12: when handleResponseMessages handles the canned response for an
\* error frame with request-id X, the waiting request registered under X in
\* the tunnel's inflight map gets 200, 200 or 500 by the frame's type with
\* the type's error text as body, and no other request changes
C12_ErrorReplyReachesItsRequest ==
    [][\A c \in Conns : \A m \in respPending[c] :
          (/\ m \notin respPending'[c]
           /\ m.kind \in ErrorReplyKinds
           /\ m.gen # 0
           /\ m.id \in DOMAIN inflight[<<c, m.gen>>]
           /\ req[inflight[<<c, m.gen>>][m.id]].cause = "none")
          => LET r == inflight[<<c, m.gen>>][m.id] IN
             /\ req'[r].pc = "done"
             /\ req'[r].status = C12_Status(m.kind)
             /\ req'[r].body = TunnelErrState(m.kind)
             /\ \A r2 \in Reqs \ {r} : req'[r2] = req[r2]]_vars

\* a request got 500 and the INVALID_RESP_FROM_DEST text while another
\* request of the same tunnel still waits
C12_Witness ==
    \E r \in Reqs, r2 \in Reqs :
        /\ r # r2
        /\ req[r].pc = "done" /\ req[r].status = 500 /\ req[r].fwd = "sent"
        /\ req[r].body =
              "Could not read response from destination server, check your server's logs for any errors."
        /\ req[r2].pc = "wait" /\ req[r2].tun = req[r].tun

\* C13: deserializing the bytes that serializeMessage produced for a
\* message with a valid type yields the same type and payload and leaves
\* unread exactly the bytes that followed the frame
C13_RoundTrip ==
    (sent.kind = "message" /\ decoded # IdleDecoded) =>
        /\ decoded.err = "none"
        /\ decoded.MsgType = sent.MsgType
        /\ decoded.MsgData = sent.MsgData
        /\ decoded.rest = sent.tail

\* a frame whose payload holds the delimiter byte was decoded while more
\* bytes followed it
C13_Witness ==
    /\ sent.kind = "message" /\ decoded.err = "none"
    /\ Len(sent.MsgData) = MaxPayload
    /\ sent.MsgData[1] = TUNNEL_MESSAGE_DATA_DELIMITER
    /\ sent.tail # << >>
    /\ decoded.MsgData = sent.MsgData

\* the length field announces a negative length, is not a number, or
\* announces more than MAX_REQ_BODY_SIZE + 16KiB
C14_BadLength(lf) ==
    \/ Atoi(lf).err # "none"
    \/ Atoi(lf).val < 0
    \/ Atoi(lf).val > MaxMessageLength

\* C14: deserializing a frame whose length field is negative, not numeric or
\* over the maximum returns an error (MessageTooLarge when over the
\* maximum), reads no payload byte and produces no message
C14_BadLengthFails ==
    (sent.kind = "raw" /\ decoded # IdleDecoded /\ C14_BadLength(sent.lengthField))
        => /\ decoded.err \notin {"none", "panic_makeslice"}
           /\ (Atoi(sent.lengthField).err = "none"
                 /\ Atoi(sent.lengthField).val > MaxMessageLength)
                   => decoded.err = "MessageTooLarge"
           /\ decoded.rest = sent.MsgData
           /\ decoded.MsgData = << >>

\* C15: the step in which the client reads INVALID_SUBDOMAIN_NAME,
\* SUBDOMAIN_ALREADY_TAKEN or CLIENT_TUNNEL_LIMIT ends the client, and an
\* ended client stays ended: it dials no connection and writes no frame
C15_RefusedClientExits ==
    [][/\ (/\ clPc = "await"
           /\ clConn' = clConn /\ clRead' = clRead + 1
           /\ toClient[clConn][clRead + 1].type \in FatalReplies)
          => clPc' = "exited"
       /\ clPc = "exited"
          => /\ clPc' = "exited"
             /\ clConn' = clConn
             /\ \A c \in Conns : Len(toServer'[c]) <= Len(toServer[c])]_vars

\* the client has ended on CLIENT_TUNNEL_LIMIT while MAX_TUNNELS_PER_IP
\* tunnels of its IP are bound
C15_Witness ==
    /\ clPc = "exited"
    /\ clRead > 0
    /\ toClient[clConn][clRead].type = "CLIENT_TUNNEL_LIMIT"
    /\ Cardinality(DOMAIN clients) = MAX_TUNNELS_PER_IP

\* the server has just written a frame of type ty on connection c
Answered(c, ty) ==
    /\ Len(toClient'[c]) = Len(toClient[c]) + 1
    /\ toClient'[c][Len(toClient'[c])].type = ty

\* C16: the step that answers a CREATE_TUNNEL with INVALID_SUBDOMAIN_NAME or
\* SUBDOMAIN_ALREADY_TAKEN leaves the connection closed by the server and
\* changes neither the registry nor the per-IP lists
C16_RefusalClosesConnection ==
    [][\A c \in Conns :
          (Answered(c, "INVALID_SUBDOMAIN_NAME")
             \/ Answered(c, "SUBDOMAIN_ALREADY_TAKEN"))
          => /\ conn'[c] = "closed"
             /\ clients' = clients
             /\ tunnelsPerIP' = tunnelsPerIP]_vars

\* the dispatcher of connection c reads, in this step, a RECLAIM_TUNNEL for
\* a name that is bound to a tunnel of another connection
ReclaimOfBoundName(c) ==
    /\ toServer[c] # << >>
    /\ toServer[c][1].type = "RECLAIM_TUNNEL"
    /\ toServer'[c] = Tail(toServer[c])
    /\ toServer[c][1].name \in DOMAIN clients
    /\ clients[toServer[c][1].name][1] # c

\* C17: the step that handles a RECLAIM_TUNNEL for a name bound to another
\* tunnel closes the reclaiming connection and changes neither the
\* registry, nor any inflight map, nor the per-IP lists
C17_ReclaimOfBoundNameOnlyCloses ==
    [][\A c \in Conns :
          ReclaimOfBoundName(c)
          => /\ conn'[c] = "closed"
             /\ clients' = clients
             /\ inflight' = inflight
             /\ tunnelsPerIP' = tunnelsPerIP]_vars

\* newClientTunnel, called for the RECLAIM_TUNNEL that the mmar client wrote
\* on the connection c of its reconnectTunnel, writes its reply in this step
ReclaimReplied(c) ==
    /\ c = clConn
    /\ c # ClientFirstConn
    /\ pc[c] = "nct_send"
    /\ pend[c] = clSub
    /\ Len(toClient'[c]) = Len(toClient[c]) + 1

\* C18: the reply to a RECLAIM_TUNNEL(name) that newClientTunnel accepted
\* (valid name, not bound, IP below its quota) is TUNNEL_RECLAIMED(name), and
\* name is registered to the tunnel of the reclaiming connection
C18_ReclaimRepliesTunnelReclaimed ==
    [][\A c \in Conns :
          ReclaimReplied(c)
          => /\ Answered(c, "TUNNEL_RECLAIMED")
             /\ toClient'[c][Len(toClient'[c])].name = pend[c]
             /\ pend[c] \in DOMAIN clients'
             /\ clients'[pend[c]] = <<c, nGen[c]>>]_vars

\* the dispatcher of connection c reads a frame of type ty in this step
ServerGot(c, ty) ==
    /\ toServer[c] # << >>
    /\ toServer[c][1].type = ty
    /\ toServer'[c] = Tail(toServer[c])

\* the client reads a frame of type ty in this step
ClientGot(ty) ==
    /\ clPc = "await"
    /\ clConn' = clConn
    /\ clRead' = clRead + 1
    /\ toClient[clConn][clRead + 1].type = ty

\* the client has just written a frame of type ty on its connection
ClientAnswered(ty) ==
    /\ Len(toServer'[clConn]) = Len(toServer[clConn]) + 1
    /\ toServer'[clConn][Len(toServer'[clConn])].type = ty

\* the registry, the inflight maps and the client's subdomain stay as they are
HeartbeatQuiet ==
    /\ clients' = clients
    /\ inflight' = inflight
    /\ clSub' = clSub

\* C19 as stated: every heartbeat that is read is answered with exactly one
\* HEARTBEAT_ACK on the same link, and reading a heartbeat or a
\* HEARTBEAT_ACK changes neither the registry, nor an inflight map, nor the
\* client's subdomain
C19_HeartbeatAlwaysAcked ==
    [][/\ \A c \in Conns :
             /\ ServerGot(c, "HEARTBEAT_FROM_CLIENT")
                => Answered(c, "HEARTBEAT_ACK") /\ HeartbeatQuiet
             /\ ServerGot(c, "HEARTBEAT_ACK") => HeartbeatQuiet
       /\ ClientGot("HEARTBEAT_FROM_SERVER")
             => ClientAnswered("HEARTBEAT_ACK") /\ HeartbeatQuiet
       /\ ClientGot("HEARTBEAT_ACK") => HeartbeatQuiet]_vars

\* C19: a heartbeat read from a live link is answered with exactly one
\* HEARTBEAT_ACK on that link, and reading it, or a HEARTBEAT_ACK, changes
\* neither the registry, nor an inflight map, nor the client's subdomain;
\* when the link is gone the ack reaches nobody, and if its write fails the
\* dispatcher stops reading the connection, respectively the client exits
C19_HeartbeatAcked ==
    [][/\ \A c \in Conns :
             /\ ServerGot(c, "HEARTBEAT_FROM_CLIENT")
                => \/ /\ conn[c] = "open"
                      /\ Answered(c, "HEARTBEAT_ACK")
                      /\ pc'[c] = "recv"
                      /\ HeartbeatQuiet
                   \/ /\ conn[c] # "open"
                      /\ toClient' = toClient
                      /\ pc'[c] = "recv" => HeartbeatQuiet
             /\ ServerGot(c, "HEARTBEAT_ACK")
                => HeartbeatQuiet /\ toClient' = toClient /\ pc'[c] = "recv"
       /\ ClientGot("HEARTBEAT_FROM_SERVER")
             => /\ HeartbeatQuiet
                /\ \/ /\ conn[clConn] = "open" /\ srv = "running"
                      /\ ClientAnswered("HEARTBEAT_ACK")
                      /\ clPc' = "await"
                   \/ /\ ~(conn[clConn] = "open" /\ srv = "running")
                      /\ toServer' = toServer
                      /\ clPc' \in {"await", "exited"}
       /\ ClientGot("HEARTBEAT_ACK")
             => HeartbeatQuiet /\ toServer' = toServer /\ clPc' = "await"]_vars

\* both sides have been answered: the client has read the HEARTBEAT_ACK of
\* its heartbeat on its reconnected link, whose dispatcher has read the
\* client's HEARTBEAT_ACK of the server's heartbeat
C19_Witness ==
    /\ clPc = "await"
    /\ clRead > 0
    /\ toClient[clConn][clRead].type = "HEARTBEAT_ACK"
    /\ \E c \in Conns \ {clConn} :
          /\ \E i \in DOMAIN toClient[c] :
                toClient[c][i].type = "HEARTBEAT_FROM_SERVER"
          /\ toServer[c] = << >>
          /\ timer[c] = "armed"
          /\ pc[c] = "recv"

\* the subdomain of the tunnel that the dispatcher of c created is bound to it
Bound(c) ==
    /\ ct[c] # 0
    /\ tunId[<<c, ct[c]>>] \in DOMAIN clients
    /\ clients[tunId[<<c, ct[c]>>]] = <<c, ct[c]>>

\* the read of the dispatcher of c ends in this step on the deadline that
\* the heartbeat callback has set: no frame is read and the link is up
ServerDeadlineExpired(c) ==
    /\ srv = "running"
    /\ pc[c] = "recv"
    /\ conn[c] = "open"
    /\ deadline[c]
    /\ ~deadline'[c]
    /\ toServer'[c] = toServer[c]

\* the read of the client ends in this step on the deadline that its
\* heartbeat callback has set: no frame is read and the link is up
ClientDeadlineExpired ==
    /\ clPc = "await"
    /\ clDeadline
    /\ ~clDeadline'
    /\ clRead' = clRead
    /\ conn[clConn] = "open"
    /\ srv = "running"

\* C20: when the read deadline armed after a heartbeat expires without a
\* message, the server tears down the bound tunnel of the connection (its
\* subdomain leaves the registry and closeClientTunnel is under way) and
\* the client enters its reconnect loop
C20_DeadlineTearsDownAndReconnects ==
    [][/\ \A c \in Conns :
             ServerDeadlineExpired(c) /\ Bound(c)
             => /\ tunId[<<c, ct[c]>>] \notin DOMAIN clients'
                /\ td'[c]["disp"].step = "finish"
                /\ td'[c]["disp"].gen = ct[c]
                /\ pc'[c] = "closing"
       /\ ClientDeadlineExpired
             => /\ clPc' = "reconnect"
                /\ clSub' = clSub]_vars

\* on a live link both deadlines have expired: the client is in its
\* reconnect loop and the server is tearing down the client's tunnel,
\* whose subdomain is no longer registered
C20_Witness ==
    /\ clPc = "reconnect"
    /\ srv = "running"
    /\ conn[clConn] = "open"
    /\ clSub # EmptyName
    /\ clSub \notin DOMAIN clients
    /\ ct[clConn] # 0
    /\ tunId[<<clConn, ct[clConn]>>] = clSub
    /\ td[clConn]["disp"].step = "finish"

\* the errors of deserializeMessage for a frame with an invalid version, an
\* invalid type or a malformed length
FrameErrors == {"INVALID_MESSAGE_PROTOCOL_VERSION", "INVALID_MESSAGE_TYPE",
                "ErrSyntax"}

\* C21: the step in which a side reads a frame with an invalid version, an
\* invalid type or a malformed length ends that side's processing of the
\* link: the client leaves its receive loop, or the dispatcher of a
\* connection stops and the connection is closed
C21_BadFrameClosesLink ==
    [][(decoded = IdleDecoded /\ decoded'.err \in FrameErrors)
       => \/ clPc = "await" /\ clPc' \in {"exited", "reconnect"}
          \/ \E c \in Conns :
                /\ pc[c] = "recv"
                /\ pc'[c] # "recv"
                /\ conn'[c] = "closed"]_vars

\* the reply that is stated for an outcome of the call to localhost
StatedReply(outcome) ==
    CASE outcome = "ok" -> "RESPONSE"
      [] outcome \in {"ECONNREFUSED", "EOF", "ErrUnexpectedEOF"} ->
            "LOCALHOST_NOT_RUNNING"
      [] outcome \in {"DeadlineExceeded", "BodyDeadlineExceeded"} ->
            "DEST_REQUEST_TIMEDOUT"
      [] OTHER -> "INVALID_RESP_FROM_DEST"

\* C22: each REQUEST frame that the client has handled on a live link has
\* got one reply with its request-id, of the type stated for the outcome
\* of its own call to localhost: RESPONSE, LOCALHOST_NOT_RUNNING,
\* DEST_REQUEST_TIMEDOUT on a deadline, INVALID_RESP_FROM_DEST otherwise
C22_ReplyTypeByOutcome ==
    \A h \in clHandled :
        h.reply # "none"
        => /\ h.reply = StatedReply(h.outcome)
           /\ h.id = toClient[clConn][h.frame].id
           /\ \A g \in clHandled : g.frame = h.frame => g = h

\* the dispatcher of c takes this step inside newClientTunnel's critical
\* section: it acquires ms.mu in the step or holds it before the step
InCriticalSection(c) ==
    /\ pc[c] \in {"nct_lock", "nct_insert", "nct_limit"}
    /\ pc'[c] # pc[c]
    /\ mu = c \/ mu' = c

\* C23: a step that inserts into or deletes from ms.clients or
\* ms.tunnelsPerIP is a step of a dispatcher inside the critical section of
\* ms.mu, teardown included
C23_RegistryWritesUnderLock ==
    [][(clients' # clients \/ tunnelsPerIP' # tunnelsPerIP)
       => \E c \in Conns : InCriticalSection(c)]_vars

\* C24: the dispatcher that holds ms.mu writes no frame on its connection
\* and does not close it in a step it takes with the lock held, the
\* per-IP-limit rejection included
C24_NoIOUnderLock ==
    [][\A c \in Conns :
          (mu = c /\ pc'[c] # pc[c])
          => /\ toClient'[c] = toClient[c]
             /\ conn'[c] = conn[c]]_vars

\* a goroutine reads ms.clients in this step: ServeHTTP looks the subdomain
\* of end-user request r up (or handleServerStats walks the map), or a
\* dispatcher runs the pre-check of RECLAIM_TUNNEL
RegistryRead ==
    \/ \E r \in Reqs : req[r].pc = "idle" /\ req'[r].pc # "idle"
    \/ \E c \in Conns : ServerGot(c, "RECLAIM_TUNNEL")

\* C25: no read of ms.clients is taken while a dispatcher is inside the
\* critical section in which the registry is written
C25_RegistryReadsUnderLock ==
    [][RegistryRead => mu = 0 /\ mu' = 0]_vars

\* C26: the frames written on the client's link are whole, and each
\* ReceiveMessage of the client returns the next frame written: the read
\* position advances frame by frame, so every frame sent is obtained once
\* and in the order of the sends
C26_EveryFrameReceivedInOrder ==
    [][(clConn' = clConn /\ clRead' # clRead) => clRead' = clRead + 1]_vars

\* C27: a read deadline in effect on a server connection was set by the
\* timer callback of the wait in progress: once a message has been received
\* and the next wait has begun with a newly armed timer, no read deadline
\* of the wait before is left on the connection
C27_NoStaleDeadline ==
    \A c \in Conns : deadline[c] => timer[c] = "fired"

\* handleResponseMessages handles on connection c the RESPONSE m whose head
\* ends early, for a request that is inflight on the tunnel and has not
\* been cancelled before
TruncatedResponseHandled(c, m) ==
    /\ m \in respPending[c]
    /\ m \notin respPending'[c]
    /\ m.parse = "truncated"
    /\ m.gen # 0
    /\ m.id \in DOMAIN inflight[<<c, m.gen>>]
    /\ req[inflight[<<c, m.gen>>][m.id]].cause = "none"

TornDown(c) ==
    /\ pc[c] = "done"
    /\ ct[c] # 0
    /\ ReservedSubdomain(c, ct[c])

\* C29: once the dispatcher has handled CLIENT_DISCONNECT or a network
\* error on a bound tunnel and its closeClientTunnel has returned, the
\* tunnel's subdomain is in the registry only if another connection has
\* bound it since, it is not in the list of the peer's IP, and the
\* connection is closed
C29_TornDownTunnelLeavesNoTrace ==
    \A c \in Conns :
        TornDown(c) =>
            LET id == tunId[<<c, ct[c]>>] IN
            /\ id \in DOMAIN clients => clients[id][1] # c
            /\ ip[c] \in DOMAIN tunnelsPerIP
                  => Index(tunnelsPerIP[ip[c]], id) = 0
            /\ conn[c] = "closed"

\* C30: while the client's context is cancelled the client makes no new
\* connection and writes no RECLAIM_TUNNEL
C30_NoReclaimAfterCancel ==
    [][clCtx = "cancelled"
       => /\ clConn' = clConn
          /\ \A c \in Conns :
                (toServer'[c] # toServer[c] /\ toServer'[c] # << >>)
                => toServer'[c][Len(toServer'[c])].type # "RECLAIM_TUNNEL"]_vars

\* the registry keys bound to a ClientTunnel of connection c, and the
\* positions of the list of c's peer IP that hold a subdomain given to c
KeysOf(c) == {s \in DOMAIN clients : clients[s][1] = c}
ListedOf(c) ==
    IF ip[c] \in DOMAIN tunnelsPerIP
    THEN {i \in DOMAIN tunnelsPerIP[ip[c]] :
             \E g \in 1..nGen[c] : tunnelsPerIP[ip[c]][i] = tunId[<<c, g>>]}
    ELSE {}

\* C31: no connection has more than one registry entry, nor more than one
\* element in the list of its peer IP
C31_OneBindingPerConnection ==
    \A c \in Conns :
        /\ Cardinality(KeysOf(c)) <= 1
        /\ Cardinality(ListedOf(c)) <= 1

\* C32: when the dispatcher of a connection has returned, no registry key
\* is bound to the connection and no element of its peer IP's list is a
\* subdomain given to it
C32_TerminatedLeavesNoBinding ==
    \A c \in Conns :
        pc[c] = "done" => KeysOf(c) = {} /\ ListedOf(c) = {}

\* no newClientTunnel and no closeClientTunnel is mid-way
Quiescent ==
    /\ mu = 0
    /\ \A c \in Conns :
          /\ pc[c] \notin {"nct_lock", "nct_insert", "nct_limit", "nct_send",
                           "closing"}
          /\ \A k \in Tasks : td[c][k].step = "idle"

\* the list recorded for peer IP a
ListFor(a) == IF a \in DOMAIN tunnelsPerIP THEN tunnelsPerIP[a] ELSE << >>

\* C33: when no creation and no teardown is mid-way, the list of every
\* peer IP holds exactly the registry subdomains whose tunnel was opened
\* from that IP, each once
C33_ListMatchesRegistry ==
    Quiescent =>
        \A a \in IPs :
            /\ {ListFor(a)[i] : i \in DOMAIN ListFor(a)} = BoundFor(a)
            /\ Len(ListFor(a)) = Cardinality(BoundFor(a))

\* C34: an end-user request that waits for the reply to its REQUEST frame
\* while the connection of its tunnel has been closed by the teardown is
\* eventually answered
C34_WaitingRequestReleased ==
    \A r \in Reqs :
        (/\ req[r].pc = "wait"
         /\ req[r].fwd = "sent"
         /\ conn[req[r].tun[1]] = "closed")
        ~> (req[r].pc = "done")

\* handleResponseMessages handles on the bound connection c the reply m
Handled(c, m) ==
    /\ m \in respPending[c]
    /\ m \notin respPending'[c]
    /\ m.gen # 0

\* C35: a request that has been answered is not written to again, and a
\* reply whose request-id is not inflight, or whose REQUEST frame has been
\* answered before with a reply that was handed to its request, changes no
\* request, no inflight map and no registry entry
C35_RepliesCompleteAtMostOnce ==
    [][/\ \A r \in Reqs : req[r].pc = "done" => req'[r] = req[r]
       /\ \A c \in Conns : \A m \in respPending[c] :
             (/\ Handled(c, m)
              /\ \/ m.id \notin DOMAIN inflight[<<c, m.gen>>]
                 \/ /\ req[m.from].pc = "done"
                    /\ req[m.from].from = m.from)
             => /\ req' = req
                /\ inflight' = inflight
                /\ clients' = clients
                /\ tunnelsPerIP' = tunnelsPerIP]_vars

\* a step of the dispatcher of connection c, or of a handleResponseMessages
\* started by it, while c has never been bound to a subdomain
UnboundStep(c) ==
    /\ ct[c] = 0
    /\ nGen[c] = 0
    /\ pc[c] = "recv"
    /\ \/ pc'[c] # "recv"
       \/ respPending'[c] # respPending[c]

\* C36: a reply frame, a CLIENT_DISCONNECT or a network error on a
\* connection that has not been bound leaves the registry, the per-IP
\* lists, the inflight maps and the end-user requests as they were, and the
\* server running
C36_UnboundFramesHarmless ==
    [][\A c \in Conns :
          UnboundStep(c)
          => /\ srv' = "running"
             /\ clients' = clients
             /\ tunnelsPerIP' = tunnelsPerIP
             /\ inflight' = inflight
             /\ req' = req]_vars

\* C37: when ServeHTTP looks up a request whose lower-cased first Host
\* label equals, without regard to case, the subdomain of a tunnel in the
\* registry, it finds that tunnel
C37_BoundNameIsRoutable ==
    [][\A r \in Reqs :
          (/\ req[r].pc = "idle"
           /\ req'[r].pc # "idle"
           /\ \E s \in DOMAIN clients : ToLower(s) = req'[r].sub)
          => /\ req'[r].clientExists
             /\ ToLower(tunId[req'[r].tun]) = req'[r].sub]_vars

\* a task begins closeClientTunnel for the ClientTunnel of generation g of
\* connection c
TeardownBegins(c, g) ==
    \E k \in Tasks :
        /\ td[c][k].step = "idle"
        /\ td'[c][k].step = "finish"
        /\ td'[c][k].gen = g

\* C38: a registry entry is removed only by a teardown of the tunnel it is
\* bound to, and a teardown of another tunnel leaves the per-IP element of
\* a tunnel that stays bound where it is
C38_TeardownRemovesOwnBinding ==
    [][\A s \in DOMAIN clients :
          LET c == clients[s][1]
              g == clients[s][2]
          IN  /\ s \notin DOMAIN clients' => TeardownBegins(c, g)
              /\ (/\ s \in DOMAIN clients'
                  /\ clients'[s] = clients[s]
                  /\ \A k \in Tasks : td[c][k].step = "idle"
                  /\ Index(ListFor(ip[c]), s) # 0)
                 => Index(tunnelsPerIP'[ip[c]], s) # 0]_vars

\* end-user request r is in the inflight map of some tunnel
Registered(r) ==
    \E o \in Tun : \E id \in DOMAIN inflight[o] : inflight[o][id] = r

\* C39: a request that serializeRequest or its chunk timer has cancelled is
\* in no inflight map and no REQUEST frame has been written for it
C39_CancelledNeverForwarded ==
    \A r \in Reqs :
        req[r].cause \in SerializeCauses
            => ~Registered(r) /\ NoRequestFrame(r)

\* C40: once ServeHTTP has answered the end-user request, the serializer
\* goroutine started for it returns
C40_SerializerTerminates ==
    \A r \in Reqs :
        (req[r].pc = "done" /\ req[r].ser # "none")
            ~> (req[r].ser = "returned")

\* C10: the server process never aborts
C10_NoAbort == srv = "running"

====
